---- MODULE Spec2Model ----
(***************************************************************************)
(* Zeus energy scheduler (custom_components/zeus).                         *)
(*                                                                         *)
(* Time is in minutes of the local day.  Wattages, prices and temperatures *)
(* are integers in a fixed unit (floats of the source); a price of 1.0 is  *)
(* PriceScale units.  Quotients the source computes in floating point      *)
(* (partial-solar cost, urgency, percentile rank, coast time) are kept as  *)
(* exact fractions <<numerator, denominator>> and compared by cross        *)
(* multiplication.  An optional value (x | None) is the empty sequence for *)
(* None and the one-element sequence <<x>> otherwise.                      *)
(***************************************************************************)
EXTENDS Integers, Sequences, FiniteSets, TLC

\* ------------------------------------------------------------------------
\* Program constants
\* ------------------------------------------------------------------------
SLOT_DURATION_MIN == 15
MINUTES_PER_HOUR == 60
THERMOSTAT_LOOKAHEAD_SLOTS == 8
SOLAR_LOOKAHEAD_SLOTS == 3
MIN_SESSION_MINUTES == 5
\* 0.2 degrees, in tenths of a degree
MIN_DELTA_TEMP == 2
\* 0.3, as a fraction
EMA_ALPHA == << 3, 10 >>

\* ------------------------------------------------------------------------
\* Bounds of the model
\* ------------------------------------------------------------------------
NumSlots == 3
PriceScale == 2
MaxClock == 4
MaxOpenCalls == 2
ManualGridSlots == 5
MaxPasses == 2
MaxReserves == 2
MaxTrackerEvents == 4
MaxFetches == 3
MaxTriggers == 3
HeadroomSlots == 11

\* ------------------------------------------------------------------------
\* Generic helpers
\* ------------------------------------------------------------------------
None == << >>
Some(v) == << v >>

Max(a, b) == IF a >= b THEN a ELSE b
Min(a, b) == IF a <= b THEN a ELSE b

\* Fractions <<n, d>> with d > 0.
FracLess(a, b) == a[1] * b[2] < b[1] * a[2]
FracEq(a, b) == a[1] * b[2] = b[1] * a[2]
FracLeq(a, b) == a[1] * b[2] <= b[1] * a[2]

RECURSIVE SortedSeq(_)
\* sorted(S) for a finite set of integers
SortedSeq(S) ==
    IF S = {} THEN << >>
    ELSE LET m == CHOOSE x \in S : \A y \in S : x <= y
         IN << m >> \o SortedSeq(S \ {m})

Range(seq) == {seq[i] : i \in 1..Len(seq)}

RECURSIVE InsertSorted(_, _)
InsertSorted(x, sorted) ==
    IF sorted = << >> THEN << x >>
    ELSE IF x < Head(sorted) THEN << x >> \o sorted
    ELSE << Head(sorted) >> \o InsertSorted(x, Tail(sorted))

RECURSIVE SortedList(_)
\* sorted(seq) for a list of integers: an element that is in the list twice
\* is in the sorted list twice
SortedList(seq) ==
    IF seq = << >> THEN << >>
    ELSE InsertSorted(seq[Len(seq)], SortedList(SubSeq(seq, 1, Len(seq) - 1)))

RECURSIVE InsertByPriority(_, _)
\* insert x into a priority-sorted list after every element of the same
\* or a lower priority value (list.sort is stable)
InsertByPriority(x, sorted) ==
    IF sorted = << >> THEN << x >>
    ELSE IF x.priority < Head(sorted).priority THEN << x >> \o sorted
    ELSE << Head(sorted) >> \o InsertByPriority(x, Tail(sorted))

\* a faulty ordering that keeps the configuration order; C6 must notice it
SortByPriorityUnsorted(lst) == lst

RECURSIVE SortByPriority(_)
\* sorted(lst, key=lambda d: d.priority)
SortByPriority(lst) ==
    IF lst = << >> THEN << >>
    ELSE InsertByPriority(lst[Len(lst)], SortByPriority(SubSeq(lst, 1, Len(lst) - 1)))

\* ------------------------------------------------------------------------
\* Slot grid
\* ------------------------------------------------------------------------
GridStart == 2 * SLOT_DURATION_MIN
SlotStarts == {GridStart + SLOT_DURATION_MIN * i : i \in 0..(NumSlots - 1)}
HourKey(t) == t \div MINUTES_PER_HOUR

\* _get_current_slot_start
GetCurrentSlotStart(t) ==
    (t \div MINUTES_PER_HOUR) * MINUTES_PER_HOUR
        + (((t % MINUTES_PER_HOUR) \div SLOT_DURATION_MIN) * SLOT_DURATION_MIN)

\* ------------------------------------------------------------------------
\* Slot pool builder
\* ------------------------------------------------------------------------
ApplyLiveSolarOverrideAlways(info, live, t) ==
    LET c == GetCurrentSlotStart(t) IN
    IF live = None \/ c \notin DOMAIN info THEN info
    ELSE [info EXCEPT ![c].solar_surplus_w = live[1], ![c].remaining_solar_w = live[1]]

\* _apply_live_solar_override.  The bias s * (live / forecast) is computed
\* as (s * live) \div forecast; the input sets keep that division exact.
ApplyLiveSolarOverride(info, live, t) ==
    LET c == GetCurrentSlotStart(t) IN
    IF live = None THEN info
    ELSE IF c \notin DOMAIN info THEN info
    ELSE IF live[1] <= info[c].solar_surplus_w THEN info
    ELSE
        LET forecast_surplus == info[c].solar_surplus_w
            biased ==
                IF forecast_surplus > 0
                THEN [st \in DOMAIN info |->
                        IF st > c /\ info[st].solar_surplus_w > 0
                        THEN LET adjusted ==
                                   (info[st].solar_surplus_w * live[1]) \div forecast_surplus
                             IN [info[st] EXCEPT !.solar_surplus_w = adjusted,
                                                 !.remaining_solar_w = adjusted]
                        ELSE info[st]]
                ELSE info
        IN [biased EXCEPT ![c].solar_surplus_w = live[1],
                          ![c].remaining_solar_w = live[1]]

\* _build_slot_info: price_slots is a function start -> [price, energy_price],
\* forecast a function hour key -> average W (empty when there is none).
BuildSlotInfo(ps, forecast, home_w, t, live) ==
    LET kept == {st \in DOMAIN ps : st + SLOT_DURATION_MIN > t}
        base == [st \in kept |->
                   LET prod == IF HourKey(st) \in DOMAIN forecast
                               THEN forecast[HourKey(st)] ELSE 0
                       surplus == Max(0, prod - home_w)
                   IN [start_time |-> st,
                       price |-> ps[st].price,
                       energy_price |-> ps[st].energy_price,
                       solar_production_w |-> prod,
                       solar_surplus_w |-> surplus,
                       remaining_solar_w |-> surplus]]
    IN ApplyLiveSolarOverride(base, live, t)

\* a faulty cost that forgets the export price of a partly covered slot
CostForDeviceInSlotNoExport(slot, device_peak_w) ==
    IF slot.remaining_solar_w >= device_peak_w
    THEN IF slot.energy_price > 0 THEN << -slot.energy_price, 1 >> ELSE << -PriceScale, 1 >>
    ELSE IF slot.remaining_solar_w > 0
    THEN << slot.price * (device_peak_w - slot.remaining_solar_w), device_peak_w >>
    ELSE << slot.price, 1 >>

\* ------------------------------------------------------------------------
\* Marginal cost (a fraction)
\* ------------------------------------------------------------------------
\* _cost_for_device_in_slot
CostForDeviceInSlot(slot, device_peak_w) ==
    LET feed_in == slot.energy_price IN
    IF slot.remaining_solar_w >= device_peak_w
    THEN IF feed_in > 0 THEN << -feed_in, 1 >> ELSE << -PriceScale, 1 >>
    ELSE IF slot.remaining_solar_w > 0
    THEN IF feed_in > 0
         THEN << slot.price * (device_peak_w - slot.remaining_solar_w)
                   - feed_in * slot.remaining_solar_w, device_peak_w >>
         ELSE << slot.price * (device_peak_w - slot.remaining_solar_w), device_peak_w >>
    ELSE << slot.price, 1 >>

\* ------------------------------------------------------------------------
\* Switch device requests
\* ------------------------------------------------------------------------
\* faulty: the live reading of a device that is off counts too
EffectiveUsageWWhenOff(d) ==
    IF d.use_actual_power /\ d.actual_usage_w # None /\ d.actual_usage_w[1] >= 0
    THEN d.actual_usage_w[1]
    ELSE d.peak_usage_w

\* DeviceScheduleRequest.effective_usage_w
EffectiveUsageW(d) ==
    IF d.use_actual_power /\ d.is_on /\ d.actual_usage_w # None /\ d.actual_usage_w[1] >= 0
    THEN d.actual_usage_w[1]
    ELSE d.peak_usage_w

\* DeviceScheduleRequest.remaining_runtime_min
RemainingRuntimeMin(d) == Max(0, d.daily_runtime_min - d.runtime_today_min)

\* DeviceScheduleRequest.remaining_slots_needed: ceil(remaining / 15)
RemainingSlotsNeeded(d) ==
    (RemainingRuntimeMin(d) + SLOT_DURATION_MIN - 1) \div SLOT_DURATION_MIN

GetEligibleSlotsAnyDeadline(info, t, deadline) ==
    SortedSeq({st \in DOMAIN info : info[st].start_time < deadline})

\* _get_eligible_slots
GetEligibleSlots(info, t, deadline) ==
    IF deadline <= t THEN << >>
    ELSE SortedSeq({st \in DOMAIN info : info[st].start_time < deadline})

\* _solar_consumption_for_device
SolarConsumptionForDevice(d, slot_start, current_slot_start) ==
    IF slot_start = current_slot_start THEN EffectiveUsageW(d) ELSE d.peak_usage_w

\* ------------------------------------------------------------------------
\* Runtime-quota scheduler (switch devices)
\* ------------------------------------------------------------------------
\* _DeviceState as created in compute_schedules
NewDeviceState(d) ==
    [remaining_needed |-> RemainingSlotsNeeded(d),
     assigned_slots |-> << >>,
     forced_on |-> FALSE]

RECURSIVE ForceSlots(_, _, _, _, _)
\* the inner loop of _apply_deadline_forced over the eligible slots
ForceSlots(d, eligible, st8, info, cur) ==
    IF eligible = << >> THEN [state |-> st8, info |-> info]
    ELSE LET st == Head(eligible) IN
         IF st \in Range(st8.assigned_slots)
         THEN ForceSlots(d, Tail(eligible), st8, info, cur)
         ELSE LET consumption == SolarConsumptionForDevice(d, st, cur)
                  st9 == [st8 EXCEPT !.assigned_slots = Append(@, st),
                                     !.remaining_needed = Max(0, @ - 1)]
                  info2 == [info EXCEPT ![st].remaining_solar_w = Max(0, @ - consumption)]
              IN ForceSlots(d, Tail(eligible), st9, info2, cur)

\* a faulty phase 1 that forces a device only when it has fewer eligible
\* slots than it needs; C5 must notice it
ApplyDeadlineForcedOneShort(d, st8, info, t, cur) ==
    LET eligible == GetEligibleSlots(info, t, d.deadline) IN
    IF eligible = << >> THEN [state |-> st8, info |-> info]
    ELSE IF st8.remaining_needed <= Len(eligible) THEN [state |-> st8, info |-> info]
    ELSE ForceSlots(d, eligible, [st8 EXCEPT !.forced_on = TRUE], info, cur)

\* one iteration of the device loop of _apply_deadline_forced
ApplyDeadlineForcedOne(d, st8, info, t, cur) ==
    LET eligible == GetEligibleSlots(info, t, d.deadline) IN
    IF eligible = << >> THEN [state |-> st8, info |-> info]
    ELSE IF st8.remaining_needed < Len(eligible) THEN [state |-> st8, info |-> info]
    ELSE ForceSlots(d, eligible, [st8 EXCEPT !.forced_on = TRUE], info, cur)

\* a faulty comparison that prefers the dearer pair; C4 must notice it
BetterCandidateCostliest(cost, d, best) ==
    \/ best = None
    \/ FracLess(best[1].cost, cost)
    \/ (FracEq(cost, best[1].cost) /\ d.priority < best[1].device.priority)

\* a faulty comparison in which the last pair found takes an equal cost
BetterCandidateLastFound(cost, d, best) ==
    \/ best = None
    \/ FracLeq(cost, best[1].cost)

\* the comparison of _find_cheapest_assignment: strictly cheaper, or equally
\* cheap with a strictly lower priority value
BetterCandidate(cost, d, best) ==
    \/ best = None
    \/ FracLess(cost, best[1].cost)
    \/ (FracEq(cost, best[1].cost) /\ d.priority < best[1].device.priority)

RECURSIVE ScanSlots(_, _, _, _, _)
\* the slot loop of _find_cheapest_assignment for one device
ScanSlots(d, eligible, already, info, best) ==
    IF eligible = << >> THEN best
    ELSE LET st == Head(eligible)
             cost == CostForDeviceInSlot(info[st], d.peak_usage_w)
             nb == IF st \in already THEN best
                   ELSE IF BetterCandidate(cost, d, best)
                   THEN Some([cost |-> cost, device |-> d, slot |-> st])
                   ELSE best
         IN ScanSlots(d, Tail(eligible), already, info, nb)

RECURSIVE ScanDevices(_, _, _, _, _)
\* the device loop of _find_cheapest_assignment
ScanDevices(active, sts, info, t, best) ==
    IF active = << >> THEN best
    ELSE LET d == Head(active)
             st8 == sts[d.subentry_id]
             nb == IF st8.remaining_needed <= 0 THEN best
                   ELSE ScanSlots(d, GetEligibleSlots(info, t, d.deadline),
                                  Range(st8.assigned_slots), info, best)
         IN ScanDevices(Tail(active), sts, info, t, nb)

\* faulty: a device whose need is met is a candidate too
FindCheapestAssignmentUnsated(active, sts, info, t) ==
    ScanDevices(active, [id \in DOMAIN sts |-> [sts[id] EXCEPT !.remaining_needed = 1]],
                info, t, None)

\* faulty: the slots a device already has are candidates again
FindCheapestAssignmentRepeating(active, sts, info, t) ==
    ScanDevices(active, [id \in DOMAIN sts |-> [sts[id] EXCEPT !.assigned_slots = << >>]],
                info, t, None)

\* _find_cheapest_assignment: None, or the winning [cost, device, slot]
FindCheapestAssignment(active, sts, info, t) ==
    ScanDevices(active, sts, info, t, None)

\* _determine_reason
DetermineReason(should_be_on, deadline_pressure, has_remaining_runtime, solar_powered) ==
    IF should_be_on /\ deadline_pressure THEN "Forced on: deadline pressure"
    ELSE IF should_be_on /\ solar_powered THEN "Scheduled: solar surplus available"
    ELSE IF should_be_on THEN "Scheduled: optimal price slot"
    ELSE IF has_remaining_runtime THEN "Waiting for cheaper slot"
    ELSE "Daily runtime met"

\* _build_result
BuildResult(d, st8, info, cur) ==
    LET slots == SortedList(st8.assigned_slots)
        should_be_on == cur \in Range(slots)
        solar_powered == should_be_on /\ cur \in DOMAIN info
                          /\ info[cur].solar_surplus_w >= d.peak_usage_w
        reason == IF st8.forced_on /\ should_be_on
                  THEN "Forced on: deadline pressure"
                  ELSE DetermineReason(should_be_on, FALSE,
                                       RemainingRuntimeMin(d) > 0, solar_powered)
    IN [subentry_id |-> d.subentry_id,
        should_be_on |-> should_be_on,
        remaining_runtime_min |-> RemainingRuntimeMin(d),
        scheduled_slots |-> slots,
        reason |-> reason]

\* the result of a device whose remaining runtime is <= 0 (compute_schedules)
RuntimeMetResult(d) ==
    [subentry_id |-> d.subentry_id,
     should_be_on |-> FALSE,
     remaining_runtime_min |-> 0,
     scheduled_slots |-> << >>,
     reason |-> "Daily runtime already met"]

ActiveDevicesAll(devs) == devs

RECURSIVE ActiveDevices(_)
\* the devices of the input list with remaining runtime, in input order
ActiveDevices(devs) ==
    IF devs = << >> THEN << >>
    ELSE IF RemainingRuntimeMin(Head(devs)) <= 0 THEN ActiveDevices(Tail(devs))
    ELSE << Head(devs) >> \o ActiveDevices(Tail(devs))

\* ------------------------------------------------------------------------
\* Thermostat decision engine
\* ------------------------------------------------------------------------
\* ThermostatScheduleRequest.effective_power_w
EffectivePowerW(th) ==
    IF th.learned_avg_power_w # None THEN th.learned_avg_power_w[1] ELSE th.peak_usage_w

\* ThermostatScheduleRequest.temp_urgency, a fraction in [0, 1]
TempUrgency(th) ==
    IF th.current_temperature = None THEN << 1, 2 >>
    ELSE LET margin_range == th.target_temp_high - th.target_temp_low IN
         IF margin_range <= 0 THEN << 1, 2 >>
         ELSE << Max(0, Min(margin_range, th.target_temp_high - th.current_temperature[1])),
                 margin_range >>

\* a faulty rank that counts the dearer prices
PercentileRankAbove(value, values) ==
    IF values = << >> THEN << 1, 2 >>
    ELSE << Cardinality({i \in 1..Len(values) : values[i] > value}), Len(values) >>

\* _percentile_rank, a fraction in [0, 1]
PercentileRank(value, values) ==
    IF values = << >> THEN << 1, 2 >>
    ELSE << Cardinality({i \in 1..Len(values) : values[i] < value}), Len(values) >>

\* seq[:n]
Prefix(seq, n) == SubSeq(seq, 1, Min(Len(seq), Max(0, n)))

\* _solar_coming_soon
SolarComingSoon(upcoming_slots, device_peak_w) ==
    \E i \in 1..Len(Prefix(upcoming_slots, SOLAR_LOOKAHEAD_SLOTS)) :
        upcoming_slots[i].remaining_solar_w >= device_peak_w

\* the part of a ScheduleResult a thermostat decision sets
ThermoResult(th, on, cur, reason) ==
    [subentry_id |-> th.subentry_id,
     should_be_on |-> on,
     remaining_runtime_min |-> 0,
     scheduled_slots |-> IF on THEN << cur >> ELSE << >>,
     reason |-> reason]

\* _check_thermal_headroom: None, or the result it returns.
\* coast_time_hours = degrees_above_lower * wh_per_degree / power_w;
\* the thresholds are 2.0 (_HEADROOM_COAST_HOURS) and 0.5 (_HEADROOM_URGENT_HOURS).
CheckThermalHeadroom(th, upcoming_prices, upcoming_slots, info, cur) ==
    IF th.wh_per_degree = None \/ th.current_temperature = None THEN None
    ELSE LET power_w == EffectivePowerW(th)
             degrees_above_lower == th.current_temperature[1] - th.target_temp_low
         IN
         IF power_w <= 0 THEN None
         ELSE IF degrees_above_lower <= 0 THEN None
         ELSE LET coast == << degrees_above_lower * th.wh_per_degree[1], power_w >>
                  coast_slots == (coast[1] * MINUTES_PER_HOUR)
                                     \div (coast[2] * SLOT_DURATION_MIN)
                  reachable == Prefix(upcoming_slots, coast_slots)
                  cheaper == cur \in DOMAIN info
                             /\ \E i \in 1..Len(reachable) :
                                    reachable[i].price < info[cur].price
              IN
              IF FracLess(<< 2, 1 >>, coast) /\ upcoming_prices # << >> /\ cheaper
              THEN Some(ThermoResult(th, FALSE, cur,
                                     "Coasting: thermal headroom, cheaper slot available"))
              ELSE IF FracLess(coast, << 1, 2 >>) /\ cur \in DOMAIN info
              THEN Some(ThermoResult(th, TRUE, cur, "Heating: low thermal headroom"))
              ELSE None

\* a faulty decision whose fallback without prices heats at urgency one half
DecideOptimizedFallbackAtHalf(th, current_slot, upcoming_prices, upcoming_slots, info, cur) ==
    LET urgency == TempUrgency(th)
        power_w == EffectivePowerW(th)
        headroom == CheckThermalHeadroom(th, upcoming_prices, upcoming_slots, info, cur)
    IN
    IF current_slot # None /\ current_slot[1].remaining_solar_w >= power_w
    THEN ThermoResult(th, TRUE, cur, "Heating: solar surplus available")
    ELSE IF FracLess(urgency, << 3, 5 >>) /\ SolarComingSoon(upcoming_slots, power_w)
    THEN ThermoResult(th, FALSE, cur, "Coasting: solar surplus expected soon")
    ELSE IF headroom # None THEN headroom[1]
    ELSE IF current_slot # None /\ upcoming_prices # << >>
    THEN IF FracLeq(PercentileRank(current_slot[1].price, upcoming_prices), urgency)
         THEN ThermoResult(th, TRUE, cur, "Heating: cheap price")
         ELSE ThermoResult(th, FALSE, cur, "Coasting: waiting for cheaper slot")
    ELSE IF FracLeq(<< 1, 2 >>, urgency)
    THEN ThermoResult(th, TRUE, cur, "Heating: no price data, urgency-based fallback")
    ELSE ThermoResult(th, FALSE, cur, "Coasting: no price data, urgency-based fallback")

\* a faulty decision that waits for solar whatever the urgency
DecideOptimizedAlwaysWaits(th, current_slot, upcoming_prices, upcoming_slots, info, cur) ==
    LET power_w == EffectivePowerW(th)
    IN IF current_slot # None /\ current_slot[1].remaining_solar_w >= power_w
       THEN ThermoResult(th, TRUE, cur, "Heating: solar surplus available")
       ELSE IF SolarComingSoon(upcoming_slots, power_w)
       THEN ThermoResult(th, FALSE, cur, "Coasting: solar surplus expected soon")
       ELSE ThermoResult(th, FALSE, cur, "Coasting: waiting for cheaper slot")

\* _decide_thermostat_optimized; current_slot is cur's record of the pool or None
DecideThermostatOptimized(th, current_slot, upcoming_prices, upcoming_slots, info, cur) ==
    LET urgency == TempUrgency(th)
        power_w == EffectivePowerW(th)
        has_solar == current_slot # None /\ current_slot[1].remaining_solar_w >= power_w
        headroom == CheckThermalHeadroom(th, upcoming_prices, upcoming_slots, info, cur)
    IN
    IF has_solar
    THEN ThermoResult(th, TRUE, cur, "Heating: solar surplus available")
    ELSE IF FracLess(urgency, << 3, 5 >>) /\ SolarComingSoon(upcoming_slots, power_w)
    THEN ThermoResult(th, FALSE, cur, "Coasting: solar surplus expected soon")
    ELSE IF headroom # None THEN headroom[1]
    ELSE IF current_slot # None /\ upcoming_prices # << >>
    THEN IF FracLeq(PercentileRank(current_slot[1].price, upcoming_prices), urgency)
         THEN ThermoResult(th, TRUE, cur, "Heating: cheap price")
         ELSE ThermoResult(th, FALSE, cur, "Coasting: waiting for cheaper slot")
    ELSE IF FracLess(<< 1, 2 >>, urgency)
    THEN ThermoResult(th, TRUE, cur, "Heating: no price data, urgency-based fallback")
    ELSE ThermoResult(th, FALSE, cur, "Coasting: no price data, urgency-based fallback")

\* a faulty decision that forces only strictly outside the band; C7 must
\* notice it
DecideThermostatStrict(th, current_slot, upcoming_prices, upcoming_slots, info, cur) ==
    IF th.hvac_mode = "off"
    THEN ThermoResult(th, FALSE, cur, "Thermostat off")
    ELSE IF th.current_temperature = None
    THEN ThermoResult(th, th.is_on, cur, "No temperature reading - holding current state")
    ELSE IF th.current_temperature[1] < th.target_temp_low
    THEN ThermoResult(th, TRUE, cur, "Forced on: at or below minimum")
    ELSE IF th.current_temperature[1] > th.target_temp_high
    THEN ThermoResult(th, FALSE, cur, "Forced off: at or above maximum")
    ELSE DecideThermostatOptimized(th, current_slot, upcoming_prices, upcoming_slots,
                                   info, cur)

\* a faulty decision that looks at hvac_mode only after the forced tiers; C8
\* must notice it
DecideThermostatOffLast(th, current_slot, upcoming_prices, upcoming_slots, info, cur) ==
    IF th.current_temperature = None
    THEN ThermoResult(th, th.is_on, cur, "No temperature reading - holding current state")
    ELSE IF th.current_temperature[1] <= th.target_temp_low
    THEN ThermoResult(th, TRUE, cur, "Forced on: at or below minimum")
    ELSE IF th.current_temperature[1] >= th.target_temp_high
    THEN ThermoResult(th, FALSE, cur, "Forced off: at or above maximum")
    ELSE IF th.hvac_mode = "off"
    THEN ThermoResult(th, FALSE, cur, "Thermostat off")
    ELSE DecideThermostatOptimized(th, current_slot, upcoming_prices, upcoming_slots,
                                   info, cur)

\* a faulty decision that stops heating when the reading is lost; C9 must
\* notice it
DecideThermostatNoReadingOff(th, current_slot, upcoming_prices, upcoming_slots, info, cur) ==
    IF th.hvac_mode = "off"
    THEN ThermoResult(th, FALSE, cur, "Thermostat off")
    ELSE IF th.current_temperature = None
    THEN ThermoResult(th, FALSE, cur, "No temperature reading - holding current state")
    ELSE IF th.current_temperature[1] <= th.target_temp_low
    THEN ThermoResult(th, TRUE, cur, "Forced on: at or below minimum")
    ELSE IF th.current_temperature[1] >= th.target_temp_high
    THEN ThermoResult(th, FALSE, cur, "Forced off: at or above maximum")
    ELSE DecideThermostatOptimized(th, current_slot, upcoming_prices, upcoming_slots,
                                   info, cur)

\* _decide_thermostat
DecideThermostat(th, current_slot, upcoming_prices, upcoming_slots, info, cur) ==
    IF th.hvac_mode = "off"
    THEN ThermoResult(th, FALSE, cur, "Thermostat off")
    ELSE IF th.current_temperature = None
    THEN ThermoResult(th, th.is_on, cur, "No temperature reading - holding current state")
    ELSE IF th.current_temperature[1] <= th.target_temp_low
    THEN ThermoResult(th, TRUE, cur, "Forced on: at or below minimum")
    ELSE IF th.current_temperature[1] >= th.target_temp_high
    THEN ThermoResult(th, FALSE, cur, "Forced off: at or above maximum")
    ELSE DecideThermostatOptimized(th, current_slot, upcoming_prices, upcoming_slots,
                                   info, cur)

\* the slots after the current one, chronologically, at most 8 of them
UpcomingSlots(info, cur) ==
    LET starts == Prefix(SortedSeq({st \in DOMAIN info : st > cur}),
                         THERMOSTAT_LOOKAHEAD_SLOTS)
    IN [i \in 1..Len(starts) |-> info[starts[i]]]

\* the wattage a heating thermostat takes from the current slot:
\* thermostat.actual_usage_w or thermostat.effective_power_w
ThermostatConsumption(th) ==
    IF th.actual_usage_w # None /\ th.actual_usage_w[1] # 0
    THEN th.actual_usage_w[1]
    ELSE EffectivePowerW(th)

\* a faulty iteration that leaves the solar of the current slot to the next
\* thermostat
ThermostatStepKeepsSolar(th, info, upcoming_slots, cur) ==
    LET current_slot == IF cur \in DOMAIN info THEN Some(info[cur]) ELSE None
        upcoming_prices == [i \in 1..Len(upcoming_slots) |-> upcoming_slots[i].price]
    IN [result |-> DecideThermostat(th, current_slot, upcoming_prices, upcoming_slots,
                                    info, cur),
        info |-> info]

\* one iteration of the loop of compute_thermostat_decisions: the decision
\* of one thermostat and the pool after its deduction
ThermostatStep(th, info, upcoming_slots, cur) ==
    LET current_slot == IF cur \in DOMAIN info THEN Some(info[cur]) ELSE None
        upcoming_prices == [i \in 1..Len(upcoming_slots) |-> upcoming_slots[i].price]
        result == DecideThermostat(th, current_slot, upcoming_prices, upcoming_slots,
                                   info, cur)
        info2 == IF result.should_be_on /\ cur \in DOMAIN info
                 THEN [info EXCEPT ![cur].remaining_solar_w =
                                       Max(0, @ - ThermostatConsumption(th))]
                 ELSE info
    IN [result |-> result, info |-> info2]

\* ------------------------------------------------------------------------
\* Manual-device ranking
\* ------------------------------------------------------------------------
MinutesPerDay == 24 * MINUTES_PER_HOUR

\* timedelta(hours=h) in minutes, for a delay of h = << n, d >> hours
HoursToMinutes(h) == (h[1] * MINUTES_PER_HOUR) \div h[2]

FracAdd(a, b) == << a[1] * b[2] + b[1] * a[2], a[2] * b[2] >>

ManualCutoffTomorrow(t) ==
    (t \div MinutesPerDay) * MinutesPerDay + 6 * MINUTES_PER_HOUR + MinutesPerDay

\* the cutoff of compute_manual_device_rankings: today's 06:00 while now is
\* before it, tomorrow's 06:00 from then on
ManualCutoff(t) ==
    LET today_6am == (t \div MinutesPerDay) * MinutesPerDay + 6 * MINUTES_PER_HOUR
    IN IF t < today_6am THEN today_6am ELSE today_6am + MinutesPerDay

SnapToSlotNearest(t) ==
    IF t % SLOT_DURATION_MIN > SLOT_DURATION_MIN \div 2
    THEN t - (t % SLOT_DURATION_MIN) + SLOT_DURATION_MIN
    ELSE t - (t % SLOT_DURATION_MIN)

\* the snap of _rank_delay_interval_windows:
\* target_start.replace(minute=(minute // 15) * 15, second=0, microsecond=0)
SnapToSlot(t) ==
    t - (t % MINUTES_PER_HOUR)
      + ((t % MINUTES_PER_HOUR) \div SLOT_DURATION_MIN) * SLOT_DURATION_MIN

IsContiguousAlways(slots) == TRUE

\* _is_contiguous
IsContiguous(slots) ==
    \A j \in 2..Len(slots) : slots[j] - slots[j - 1] = SLOT_DURATION_MIN

RECURSIVE SumCosts(_, _, _)
\* the total_cost accumulation of _score_window
SumCosts(window_slots, info, power) ==
    IF window_slots = << >> THEN << 0, 1 >>
    ELSE FracAdd(CostForDeviceInSlot(info[Head(window_slots)], power),
                 SumCosts(Tail(window_slots), info, power))

\* _score_window: [total_cost, solar_fraction], both fractions
ScoreWindow(window_slots, info, peak_usage_w, avg_usage_w) ==
    LET power == IF avg_usage_w # None /\ avg_usage_w[1] # 0
                 THEN avg_usage_w[1] ELSE peak_usage_w
        solar_count == Cardinality({i \in 1..Len(window_slots) :
                           info[window_slots[i]].remaining_solar_w >= peak_usage_w})
    IN [total_cost |-> SumCosts(window_slots, info, power),
        solar_fraction |-> IF window_slots = << >> THEN << 0, 1 >>
                           ELSE << solar_count, Len(window_slots) >>]

PoolAfterScoreWindowClaims(window_slots, info, peak_usage_w) ==
    [st \in DOMAIN info |->
        IF st \in Range(window_slots)
        THEN [info[st] EXCEPT !.remaining_solar_w = 0]
        ELSE info[st]]
PoolAfterScoreWindowDeducts(window_slots, info, peak_usage_w) ==
    [st \in DOMAIN info |->
        IF st = window_slots[1]
        THEN [info[st] EXCEPT !.remaining_solar_w = Max(0, @ - peak_usage_w)]
        ELSE info[st]]

\* the pool after _score_window: it reads the slots and writes none of them
PoolAfterScoreWindow(window_slots, info, peak_usage_w) == info

\* ManualDeviceWindow
ManualDeviceWindow(window_slots, score, delay_hours) ==
    [start_time |-> window_slots[1],
     end_time |-> window_slots[Len(window_slots)] + SLOT_DURATION_MIN,
     total_cost |-> score.total_cost,
     solar_fraction |-> score.solar_fraction,
     delay_hours |-> delay_hours]

RECURSIVE RankAllContiguousWindows(_, _, _, _, _, _)
\* _rank_all_contiguous_windows from index i (1-based) on; acc holds the
\* windows found so far
RankAllContiguousWindows(request, info, eligible, slots_needed, i, acc) ==
    IF i > Len(eligible) - slots_needed + 1 THEN [windows |-> acc, info |-> info]
    ELSE LET window_slots == SubSeq(eligible, i, i + slots_needed - 1) IN
         IF ~IsContiguous(window_slots)
         THEN RankAllContiguousWindows(request, info, eligible, slots_needed, i + 1, acc)
         ELSE LET score == ScoreWindow(window_slots, info, request.peak_usage_w,
                                       request.avg_usage_w)
                  info2 == PoolAfterScoreWindow(window_slots, info, request.peak_usage_w)
              IN RankAllContiguousWindows(request, info2, eligible, slots_needed, i + 1,
                     Append(acc, ManualDeviceWindow(window_slots, score, None)))

RECURSIVE InsertDelay(_, _)
InsertDelay(h, sorted) ==
    IF sorted = << >> THEN << h >>
    ELSE IF FracLess(h, Head(sorted)) THEN << h >> \o sorted
    ELSE << Head(sorted) >> \o InsertDelay(h, Tail(sorted))

RECURSIVE SortedDelays(_)
\* sorted(request.delay_intervals_h or [])
SortedDelays(delays) ==
    IF delays = << >> THEN << >>
    ELSE InsertDelay(delays[Len(delays)], SortedDelays(SubSeq(delays, 1, Len(delays) - 1)))

RECURSIVE RankDelayIntervalWindows(_, _, _, _, _, _, _)
\* _rank_delay_interval_windows over the delays still to visit
RankDelayIntervalWindows(request, info, eligible, slots_needed, t, delays, acc) ==
    IF delays = << >> THEN [windows |-> acc, info |-> info]
    ELSE LET delay_h == Head(delays)
             snapped == SnapToSlot(t + HoursToMinutes(delay_h))
             window_slots == [k \in 1..slots_needed |->
                                 snapped + SLOT_DURATION_MIN * (k - 1)]
             last_eligible == IF eligible = << >> THEN t ELSE eligible[Len(eligible)]
         IN IF window_slots[slots_needed] > last_eligible
                \/ ~(\A k \in 1..slots_needed : window_slots[k] \in Range(eligible))
            THEN RankDelayIntervalWindows(request, info, eligible, slots_needed, t,
                                          Tail(delays), acc)
            ELSE LET score == ScoreWindow(window_slots, info, request.peak_usage_w,
                                          request.avg_usage_w)
                     info2 == PoolAfterScoreWindow(window_slots, info,
                                                   request.peak_usage_w)
                 IN RankDelayIntervalWindows(request, info2, eligible, slots_needed, t,
                        Tail(delays),
                        Append(acc, ManualDeviceWindow(window_slots, score,
                                                       Some(delay_h))))

WindowKeyLessCostOnly(a, b) == FracLess(a.total_cost, b.total_cost)

\* the sort key (total_cost, -solar_fraction) of one window is below another's
WindowKeyLess(a, b) ==
    \/ FracLess(a.total_cost, b.total_cost)
    \/ (FracEq(a.total_cost, b.total_cost)
        /\ FracLess(b.solar_fraction, a.solar_fraction))

RECURSIVE InsertWindow(_, _)
InsertWindow(w, sorted) ==
    IF sorted = << >> THEN << w >>
    ELSE IF WindowKeyLess(w, Head(sorted)) THEN << w >> \o sorted
    ELSE << Head(sorted) >> \o InsertWindow(w, Tail(sorted))

RECURSIVE SortWindows(_)
\* windows.sort(key=lambda w: (w.total_cost, -w.solar_fraction)), stable
SortWindows(windows) ==
    IF windows = << >> THEN << >>
    ELSE InsertWindow(windows[Len(windows)],
                      SortWindows(SubSeq(windows, 1, Len(windows) - 1)))

\* ManualDeviceRanking
ManualDeviceRanking(request, windows) ==
    [subentry_id |-> request.subentry_id,
     windows |-> windows,
     recommended_start |-> IF windows = << >> THEN None ELSE Some(windows[1].start_time),
     recommended_end |-> IF windows = << >> THEN None ELSE Some(windows[1].end_time)]

\* compute_manual_device_rankings: the ranking and the pool after the call
ComputeManualDeviceRankings(request, info, t) ==
    LET slots_needed == (request.cycle_duration_min + SLOT_DURATION_MIN - 1)
                            \div SLOT_DURATION_MIN
        cutoff == ManualCutoff(t)
        eligible == SortedSeq({st \in DOMAIN info :
                                  st + SLOT_DURATION_MIN > t /\ st < cutoff})
    IN IF slots_needed <= 0 \/ eligible = << >>
       THEN [ranking |-> ManualDeviceRanking(request, << >>), info |-> info]
       ELSE LET r == IF request.delay_intervals_h # None
                        /\ request.delay_intervals_h[1] # << >>
                     THEN RankDelayIntervalWindows(request, info, eligible, slots_needed,
                              t, SortedDelays(request.delay_intervals_h[1]), << >>)
                     ELSE RankAllContiguousWindows(request, info, eligible, slots_needed,
                                                   1, << >>)
            IN [ranking |-> ManualDeviceRanking(request, SortWindows(r.windows)),
                info |-> r.info]

RECURSIVE RankManualDevices(_, _, _, _)
\* the loop of async_run_scheduler over manual_requests: the rankings by
\* subentry_id and the pool after them
RankManualDevices(reqs, info, t, acc) ==
    IF reqs = << >> THEN [rankings |-> acc, info |-> info]
    ELSE LET r == ComputeManualDeviceRankings(Head(reqs), info, t)
         IN RankManualDevices(Tail(reqs), r.info, t,
                (Head(reqs).subentry_id :> r.ranking) @@ acc)

\* ------------------------------------------------------------------------
\* Reservation integrator
\* ------------------------------------------------------------------------
RECURSIVE ApplyReservationsOverlapping(_, _, _)
ApplyReservationsOverlapping(info, reservations, manual_reqs) ==
    IF reservations = << >> THEN info
    ELSE LET r == Head(reservations)
             reqs == {i \in 1..Len(manual_reqs) : manual_reqs[i].subentry_id = r.subentry_id}
             info2 ==
                 IF reqs = {} THEN info
                 ELSE LET req == manual_reqs[CHOOSE i \in reqs : \A j \in reqs : j <= i]
                      IN [st \in DOMAIN info |->
                            IF st >= r.start /\ st < r.end
                            THEN [info[st] EXCEPT !.remaining_solar_w =
                                                      Max(0, @ - req.peak_usage_w)]
                            ELSE info[st]]
         IN ApplyReservationsOverlapping(info2, Tail(reservations), manual_reqs)

RECURSIVE ApplyReservations(_, _, _)
\* apply_reservations_to_slot_info; reservations is a sequence of
\* [subentry_id, start, end] (the items of the reservation map)
ApplyReservations(info, reservations, manual_reqs) ==
    IF reservations = << >> THEN info
    ELSE LET r == Head(reservations)
             reqs == {i \in 1..Len(manual_reqs) : manual_reqs[i].subentry_id = r.subentry_id}
             info2 ==
                 IF reqs = {} THEN info
                 ELSE LET req == manual_reqs[CHOOSE i \in reqs : \A j \in reqs : j <= i]
                      IN [st \in DOMAIN info |->
                            IF st >= r.start /\ st + SLOT_DURATION_MIN <= r.end
                            THEN [info[st] EXCEPT !.remaining_solar_w =
                                                      Max(0, @ - req.peak_usage_w)]
                            ELSE info[st]]
         IN ApplyReservations(info2, Tail(reservations), manual_reqs)

\* ------------------------------------------------------------------------
\* State
\* ------------------------------------------------------------------------
VARIABLES
    \* inputs of a pass (async_run_scheduler), fixed while it runs
    now,                    \* dt_util.now(), minutes of the day
    price_slots,            \* slot start -> [price, energy_price]
    solar_forecast,         \* hour key -> W; empty without a forecast
    home_consumption_w,     \* net background consumption
    live_solar_surplus_w,   \* optional live surplus
    devices,                \* list of DeviceScheduleRequest
    thermostats,            \* list of ThermostatScheduleRequest
    manual_requests,        \* list of ManualDeviceScheduleRequest
    reservations,           \* active reservations [subentry_id, start, end]
    \* state of the pass
    pc,                     \* position in async_run_scheduler
    pools,                  \* every slot-pool instance built in the pass
    shared_slot_info,       \* index into pools, 0 for None
    active_devices,         \* priority-sorted switch devices with runtime left
    states,                 \* subentry_id -> _DeviceState
    results,                \* subentry_id -> ScheduleResult
    idx,                    \* loop index of the running stage
    upcoming_slots,         \* the look-ahead slots the thermostat engine took
    pool_of,                \* pool instance each consumer worked on, 0 = did not run
    assign_log,             \* every slot assignment of the switch scheduler, in order
    manual_seen             \* subentry_id -> remaining solar the ranking read

inputVars == << now, price_slots, solar_forecast, home_consumption_w,
                live_solar_surplus_w, devices, thermostats, manual_requests,
                reservations >>
passVars == << pc, pools, shared_slot_info, active_devices, states, results, idx,
               upcoming_slots, pool_of, assign_log, manual_seen >>

\* state of the schedule binary sensor of one switch device
VARIABLES
    clock,                  \* dt_util.utcnow(), minutes
    enabled,                \* coordinator.enabled
    schedule_result,        \* optional should_be_on of the device's result
    min_cycle_time,         \* CONF_MIN_CYCLE_TIME of the device
    added,                  \* async_added_to_hass has run
    attr_is_on,             \* _attr_is_on
    last_switch_change,     \* _last_switch_change, optional
    current_switch_state,   \* _current_switch_state, optional
    open_calls,             \* service calls issued and not yet returned
    cmd_state,              \* state of the last command issued, optional
    cmd_time,               \* when the commanded state last changed
    early_flip              \* a command reversed the commanded state too early

cycleVars == << clock, enabled, schedule_result, min_cycle_time, added, attr_is_on,
                last_switch_change, current_switch_state, open_calls, cmd_state,
                cmd_time, early_flip >>

\* results of the manual-device ranking, and of the coordinator
VARIABLES
    manual_results,         \* coordinator.manual_device_results
    manual_again,           \* the rankings of a second call on the same inputs
    schedule_results,       \* coordinator.schedule_results
    last_completed,         \* what the last pass that completed returned
    propagated,             \* an exception of a pass reached the caller
    passes                  \* passes started so far

\* the long-lived state of the coordinator beside the schedule
VARIABLES
    manual_reservations,    \* _manual_reservations: subentry_id -> << start, end >>
    stored_reservations,    \* what _reservation_store holds
    reserve_log             \* the reservation requests made, in order

reserveVars == << manual_reservations, stored_reservations, reserve_log >>

\* one ThermalTracker and the heater events it was told of; temperatures
\* are in tenths of a degree, times in minutes
VARIABLES
    tracker,                \* wh_per_degree, sample_count and the session fields
    tracker_event           \* the last event: its number, kind and arguments

\* the heater switch as the listener has seen it: whether it is on, when it
\* last went from off to on, and for the last sample the tracker took in when
\* its session had been opened and when the heater had last been turned on
VARIABLE heater

trackerVars == << tracker, tracker_event, heater >>

\* the price cache of one home and the fetches made so far
VARIABLES
    cached_slots,           \* _cached_slots[home]: start time -> PriceSlot
    fetch_log               \* number of fetches made and the time of the last

\* one refresh of the prices: what the provider answers to successive calls
\* of async_get_prices, the calls made, the waits taken and how it ended
VARIABLE refresh

cacheVars == << cached_slots, fetch_log, refresh >>

\* the last query of a switch's runtime today: what the history store was
\* and held, and how the query ended
VARIABLE runtime_query

queryVars == << runtime_query >>

\* the passes that triggers have started as tasks
VARIABLES
    running_passes,         \* passes begun and not yet returned
    triggered               \* number of passes begun so far

triggerVars == << running_passes, triggered >>

\* the last evaluation of the marginal cost: the slot, the wattage and the
\* cost returned
VARIABLE cost_call

\* the results compute_schedules returned for the device list in its first
\* order, once it has been called again with the list reversed
VARIABLE order_results

costVars == << cost_call, order_results >>
hostVars == << reserveVars, trackerVars, cacheVars, queryVars, triggerVars, costVars >>

manualVars == << manual_results, manual_again >>
coordVars == << schedule_results, last_completed, propagated, passes >>

vars == << inputVars, passVars, cycleVars, manualVars, coordVars, hostVars >>

\* no ranking made and nothing published yet (PriceCoordinator.__init__)
NothingPublished ==
    /\ manual_results = << >>
    /\ manual_again = << >>
    /\ schedule_results = << >>
    /\ last_completed = << >>
    /\ propagated = FALSE
    /\ passes = 0

\* the coordinator as constructed, before anything was requested of it
NoRuntimeQuery ==
    [recorder |-> "none", states |-> << >>, end |-> 0, minutes |-> None, raised |-> FALSE]
NoTrackerEvent == [n |-> 0, kind |-> "none", temp |-> 0, power |-> 0, at |-> 0]
\* ThermalTracker(): nothing learned, no session
NewThermalTracker ==
    [wh_per_degree |-> None, sample_count |-> 0,
     session_start_temp |-> None, session_start_time |-> None]

\* the heater is off and nothing has been learned from it
HeaterOff == [is_on |-> FALSE, turned_on_at |-> << >>, folded |-> << >>]

\* no refresh of the prices under way
NoRefresh == [script |-> << >>, calls |-> 0, sleeps |-> << >>, status |-> "idle"]

HostIdle ==
    /\ manual_reservations = << >>
    /\ stored_reservations = << >>
    /\ reserve_log = << >>
    /\ tracker = NewThermalTracker
    /\ tracker_event = NoTrackerEvent
    /\ heater = HeaterOff
    /\ cached_slots = << >>
    /\ fetch_log = [n |-> 0, now |-> 0]
    /\ refresh = NoRefresh
    /\ runtime_query = NoRuntimeQuery
    /\ running_passes = {}
    /\ triggered = 0
    /\ cost_call = << >>
    /\ order_results = << >>

CurrentSlotStart == GetCurrentSlotStart(now)

\* _build_slot_info on the inputs of the pass
FreshPool ==
    BuildSlotInfo(price_slots, solar_forecast, home_consumption_w, now,
                  live_solar_surplus_w)

NoPools == [reservation |-> 0, switch |-> 0, thermostat |-> 0, manual |-> 0]

\* the state of a pass before its first stage
PassStart ==
    /\ pc = "reservations"
    /\ pools = << >>
    /\ shared_slot_info = 0
    /\ active_devices = << >>
    /\ states = << >>
    /\ results = << >>
    /\ idx = 0
    /\ upcoming_slots = << >>
    /\ pool_of = NoPools
    /\ assign_log = << >>
    /\ manual_seen = << >>
    /\ NothingPublished

\* ------------------------------------------------------------------------
\* async_run_scheduler, stage by stage
\* ------------------------------------------------------------------------
\* reservations: _ensure_slot_info when a reservation is active
ReservationEnsure ==
    /\ pc = "reservations"
    /\ IF reservations # << >> /\ manual_requests # << >>
       THEN /\ pools' = Append(pools, FreshPool)
            /\ shared_slot_info' = Len(pools) + 1
            /\ pc' = "apply_reservations"
       ELSE /\ UNCHANGED << pools, shared_slot_info >>
            /\ pc' = "switch"
    /\ UNCHANGED << active_devices, states, results, idx, upcoming_slots, pool_of,
                    assign_log, manual_seen >>
    /\ UNCHANGED << inputVars, cycleVars, manualVars, coordVars, hostVars >>

\* reservations: apply_reservations_to_slot_info
ReservationApply ==
    /\ pc = "apply_reservations"
    /\ pools' = [pools EXCEPT ![shared_slot_info] =
                     ApplyReservations(@, reservations, manual_requests)]
    /\ pool_of' = [pool_of EXCEPT !.reservation = shared_slot_info]
    /\ pc' = "switch"
    /\ UNCHANGED << shared_slot_info, active_devices, states, results, idx,
                    upcoming_slots, assign_log, manual_seen >>
    /\ UNCHANGED << inputVars, cycleVars, manualVars, coordVars, hostVars >>

\* switch devices: the head of compute_schedules / _compute_schedules_with_slot_info
SwitchSetup ==
    /\ pc = "switch"
    /\ IF devices = << >>
       THEN /\ pc' = "thermostats"
            /\ UNCHANGED << pools, shared_slot_info, active_devices, states, results,
                            idx, pool_of >>
       ELSE LET act == ActiveDevices(devices)
                met == {i \in 1..Len(devices) : RemainingRuntimeMin(devices[i]) <= 0}
                pool == IF shared_slot_info # 0 THEN shared_slot_info ELSE Len(pools) + 1
            IN /\ pools' = IF shared_slot_info # 0 THEN pools ELSE Append(pools, FreshPool)
               /\ shared_slot_info' = pool
               /\ pool_of' = [pool_of EXCEPT !.switch = pool]
               /\ active_devices' = SortByPriority(act)
               /\ states' = [id \in {act[i].subentry_id : i \in 1..Len(act)} |->
                               NewDeviceState(
                                   act[CHOOSE i \in 1..Len(act) : act[i].subentry_id = id])]
               /\ results' = [id \in {devices[i].subentry_id : i \in met} |->
                                RuntimeMetResult(
                                    devices[CHOOSE i \in met : devices[i].subentry_id = id])]
               /\ idx' = 1
               /\ pc' = IF act = << >> THEN "thermostats" ELSE "phase1"
    /\ UNCHANGED << upcoming_slots, assign_log, manual_seen >>
    /\ UNCHANGED << inputVars, cycleVars, manualVars, coordVars, hostVars >>

\* the entries a device adds to the assignment log when st8 becomes st9
NewAssignments(d, st8, st9, info, phase) ==
    [i \in 1..(Len(st9.assigned_slots) - Len(st8.assigned_slots)) |->
        LET st == st9.assigned_slots[Len(st8.assigned_slots) + i]
        IN [device |-> d.subentry_id, slot |-> st, phase |-> phase,
            covered |-> info[st].remaining_solar_w >= d.peak_usage_w]]

\* phase 1: one device of _apply_deadline_forced
DeadlineForcedStep ==
    /\ pc = "phase1"
    /\ LET d == active_devices[idx]
           info == pools[shared_slot_info]
           r == ApplyDeadlineForcedOne(d, states[d.subentry_id], info, now,
                                       CurrentSlotStart)
       IN /\ states' = [states EXCEPT ![d.subentry_id] = r.state]
          /\ pools' = [pools EXCEPT ![shared_slot_info] = r.info]
          /\ assign_log' = assign_log
                 \o NewAssignments(d, states[d.subentry_id], r.state, info, 1)
    /\ idx' = idx + 1
    /\ pc' = IF idx = Len(active_devices) THEN "phase2" ELSE "phase1"
    /\ UNCHANGED << shared_slot_info, active_devices, results, upcoming_slots, pool_of,
                    manual_seen >>
    /\ UNCHANGED << inputVars, cycleVars, manualVars, coordVars, hostVars >>

\* phase 2: one iteration of the loop of _apply_cost_optimal; when it finds
\* no pair the loop ends and the results are built
CostOptimalStep ==
    /\ pc = "phase2"
    /\ LET info == pools[shared_slot_info]
           best == FindCheapestAssignment(active_devices, states, info, now)
       IN IF best # None
          THEN LET d == best[1].device
                   st == best[1].slot
                   consumption == SolarConsumptionForDevice(d, st, CurrentSlotStart)
               IN /\ states' = [states EXCEPT
                                   ![d.subentry_id].assigned_slots = Append(@, st),
                                   ![d.subentry_id].remaining_needed = @ - 1]
                  /\ pools' = [pools EXCEPT ![shared_slot_info][st].remaining_solar_w =
                                                Max(0, @ - consumption)]
                  /\ assign_log' = Append(assign_log,
                         [device |-> d.subentry_id, slot |-> st, phase |-> 2,
                          covered |-> info[st].remaining_solar_w >= d.peak_usage_w])
                  /\ UNCHANGED << results, pc >>
          ELSE /\ results' =
                     [id \in {active_devices[i].subentry_id : i \in 1..Len(active_devices)}
                        |-> LET d == active_devices[CHOOSE i \in 1..Len(active_devices) :
                                                       active_devices[i].subentry_id = id]
                            IN BuildResult(d, states[id], info, CurrentSlotStart)]
                     @@ results
               /\ pc' = "thermostats"
               /\ UNCHANGED << states, pools, assign_log >>
    /\ UNCHANGED << shared_slot_info, active_devices, idx, upcoming_slots, pool_of,
                    manual_seen >>
    /\ UNCHANGED << inputVars, cycleVars, manualVars, coordVars, hostVars >>

\* thermostats: the head of compute_thermostat_decisions.  Without a shared
\* pool it builds one of its own, which async_run_scheduler never sees.
ThermostatSetup ==
    /\ pc = "thermostats"
    /\ IF thermostats = << >>
       THEN /\ pc' = "manual"
            /\ UNCHANGED << pools, idx, upcoming_slots, pool_of >>
       ELSE LET pool == IF shared_slot_info # 0 THEN shared_slot_info ELSE Len(pools) + 1
                info == IF shared_slot_info # 0 THEN pools[shared_slot_info] ELSE FreshPool
            IN /\ pools' = IF shared_slot_info # 0 THEN pools ELSE Append(pools, FreshPool)
               /\ pool_of' = [pool_of EXCEPT !.thermostat = pool]
               /\ upcoming_slots' = UpcomingSlots(info, CurrentSlotStart)
               /\ idx' = 1
               /\ pc' = "decide"
    /\ UNCHANGED << shared_slot_info, active_devices, states, results, assign_log,
                    manual_seen >>
    /\ UNCHANGED << inputVars, cycleVars, manualVars, coordVars, hostVars >>

\* thermostats: one iteration of the loop of compute_thermostat_decisions
ThermostatDecideStep ==
    /\ pc = "decide"
    /\ LET th == SortByPriority(thermostats)[idx]
           r == ThermostatStep(th, pools[pool_of.thermostat], upcoming_slots,
                               CurrentSlotStart)
       IN /\ results' = (th.subentry_id :> r.result) @@ results
          /\ pools' = [pools EXCEPT ![pool_of.thermostat] = r.info]
    /\ idx' = idx + 1
    /\ pc' = IF idx = Len(thermostats) THEN "manual" ELSE "decide"
    /\ UNCHANGED << shared_slot_info, active_devices, states, upcoming_slots, pool_of,
                    assign_log, manual_seen >>
    /\ UNCHANGED << inputVars, cycleVars, manualVars, coordVars, hostVars >>

\* manual devices: _ensure_slot_info and the rankings, which read the pool
ManualStage ==
    /\ pc = "manual"
    /\ IF manual_requests = << >>
       THEN UNCHANGED << pools, shared_slot_info, pool_of, manual_seen, manual_results >>
       ELSE LET pool == IF shared_slot_info # 0 THEN shared_slot_info ELSE Len(pools) + 1
                info == IF shared_slot_info # 0 THEN pools[shared_slot_info] ELSE FreshPool
                r == RankManualDevices(manual_requests, info, now, << >>)
            IN /\ pools' = IF shared_slot_info # 0
                           THEN [pools EXCEPT ![pool] = r.info]
                           ELSE Append(pools, r.info)
               /\ shared_slot_info' = pool
               /\ pool_of' = [pool_of EXCEPT !.manual = pool]
               /\ manual_seen' =
                      [id \in {manual_requests[i].subentry_id :
                                  i \in 1..Len(manual_requests)} |->
                          [st \in DOMAIN info |-> info[st].remaining_solar_w]]
               /\ manual_results' = r.rankings
    /\ pc' = "done"
    /\ UNCHANGED << active_devices, states, results, idx, upcoming_slots, assign_log >>
    /\ UNCHANGED << inputVars, cycleVars, manual_again, coordVars, hostVars >>

\* compute_manual_device_rankings called once more for every request, on the
\* pool and the 'now' of the pass
ManualRankAgain ==
    /\ pc = "done"
    /\ manual_requests # << >>
    /\ LET r == RankManualDevices(manual_requests, pools[pool_of.manual], now, << >>)
       IN /\ manual_again' = r.rankings
          /\ pools' = [pools EXCEPT ![pool_of.manual] = r.info]
    /\ pc' = "ranked_again"
    /\ UNCHANGED << shared_slot_info, active_devices, states, results, idx,
                    upcoming_slots, pool_of, assign_log, manual_seen >>
    /\ UNCHANGED << inputVars, cycleVars, manual_results, coordVars, hostVars >>

\* ------------------------------------------------------------------------
\* Inputs
\* ------------------------------------------------------------------------
Device(id, peak, daily, today, deadline, prio, on, actual, use_actual) ==
    [subentry_id |-> id, peak_usage_w |-> peak, daily_runtime_min |-> daily,
     runtime_today_min |-> today, deadline |-> deadline, priority |-> prio,
     is_on |-> on, actual_usage_w |-> actual, use_actual_power |-> use_actual]

Thermostat(id, peak, low, high, prio, mode, learned, wh, temp, on, actual) ==
    [subentry_id |-> id, peak_usage_w |-> peak, target_temp_low |-> low,
     target_temp_high |-> high, priority |-> prio, hvac_mode |-> mode,
     learned_avg_power_w |-> learned, wh_per_degree |-> wh,
     current_temperature |-> temp, is_on |-> on, actual_usage_w |-> actual]

ManualDevice(id, peak, avg, cycle, prio) ==
    [subentry_id |-> id, peak_usage_w |-> peak, avg_usage_w |-> avg,
     cycle_duration_min |-> cycle, priority |-> prio, delay_intervals_h |-> None]

\* a manual device with the delay offsets of its subentry (_parse_delay_intervals)
ManualDeviceDelayed(id, peak, avg, cycle, prio, delays) ==
    [ManualDevice(id, peak, avg, cycle, prio) EXCEPT !.delay_intervals_h = delays]

GridEnd == GridStart + NumSlots * SLOT_DURATION_MIN
GridHours == {HourKey(st) : st \in SlotStarts}

\* price lists over any part of the grid, each slot with one of the quotes
PriceLists(Present, Quotes) == UNION {[P -> Quotes] : P \in Present}

\* a price profile over the whole grid: rising or falling by one unit a slot
Rising == [st \in SlotStarts |->
             LET k == (st - GridStart) \div SLOT_DURATION_MIN
             IN [price |-> 1 + k, energy_price |-> k - 1]]
Falling == [st \in SlotStarts |->
              LET k == (st - GridStart) \div SLOT_DURATION_MIN
              IN [price |-> NumSlots - k, energy_price |-> NumSlots - k - 2]]
Without(f, st) == [x \in (DOMAIN f) \ {st} |-> f[x]]

\* forecasts: none, or a production for every hour of the grid
Forecasts(Watts) == {<< >>} \cup [GridHours -> Watts]

\* ------------------------------------------------------------------------
\* Switch actuation (ZeusDeviceScheduleSensor)
\* ------------------------------------------------------------------------
\* _is_cycle_locked
IsCycleLocked(desired_on) ==
    IF min_cycle_time <= 0 THEN FALSE
    ELSE IF last_switch_change = None \/ current_switch_state = None THEN FALSE
    ELSE IF desired_on = current_switch_state[1] THEN FALSE
    ELSE clock - last_switch_change[1] < min_cycle_time

\* _async_control_switch up to its service call.  hass.async_create_task
\* starts the coroutine eagerly, so this part runs inside the caller.
ControlSwitch(turn_on) ==
    /\ IF current_switch_state # Some(turn_on)
       THEN /\ last_switch_change' = Some(clock)
            /\ current_switch_state' = Some(turn_on)
       ELSE UNCHANGED << last_switch_change, current_switch_state >>
    /\ open_calls' = open_calls + 1
    /\ cmd_state' = Some(turn_on)
    /\ cmd_time' = IF cmd_state # Some(turn_on) THEN clock ELSE cmd_time
    /\ early_flip' = (early_flip \/ (/\ cmd_state # None
                                     /\ cmd_state # Some(turn_on)
                                     /\ clock - cmd_time < min_cycle_time))

NoCommand ==
    UNCHANGED << last_switch_change, current_switch_state, open_calls, cmd_state,
                 cmd_time, early_flip >>

\* _handle_coordinator_update, for the coordinator state (en, res)
HandleCoordinatorUpdate(en, res) ==
    IF ~en
    THEN IF attr_is_on
         THEN attr_is_on' = FALSE /\ ControlSwitch(FALSE)
         ELSE UNCHANGED attr_is_on /\ NoCommand
    ELSE IF res = None THEN UNCHANGED attr_is_on /\ NoCommand
    ELSE IF IsCycleLocked(res[1]) THEN UNCHANGED attr_is_on /\ NoCommand
    ELSE attr_is_on' = res[1] /\ ControlSwitch(res[1])

\* async_added_to_hass: the initial sync of the switch
AddedToHass ==
    /\ ~added
    /\ added' = TRUE
    /\ ControlSwitch(attr_is_on)
    /\ UNCHANGED << clock, enabled, schedule_result, min_cycle_time, attr_is_on >>
    /\ UNCHANGED << inputVars, passVars, manualVars, coordVars, hostVars >>

\* time passes
Tick ==
    /\ clock < MaxClock
    /\ clock' = clock + 1
    /\ UNCHANGED << enabled, schedule_result, min_cycle_time, added, attr_is_on,
                    last_switch_change, current_switch_state, open_calls, cmd_state,
                    cmd_time, early_flip >>
    /\ UNCHANGED << inputVars, passVars, manualVars, coordVars, hostVars >>

\* _async_slot_update: a pass publishes the device's result (none while
\* Zeus is disabled) and the listeners are notified
SlotUpdate ==
    /\ added
    /\ open_calls < MaxOpenCalls
    /\ \E on \in BOOLEAN :
          LET res == IF enabled THEN Some(on) ELSE None
          IN /\ schedule_result' = res
             /\ HandleCoordinatorUpdate(enabled, res)
    /\ UNCHANGED << clock, enabled, min_cycle_time, added >>
    /\ UNCHANGED << inputVars, passVars, manualVars, coordVars, hostVars >>

\* async_set_enabled: the master switch; the last results stay published
SetEnabled ==
    /\ added
    /\ open_calls < MaxOpenCalls
    /\ \E en \in BOOLEAN :
          /\ enabled' = en
          /\ HandleCoordinatorUpdate(en, schedule_result)
    /\ UNCHANGED << clock, schedule_result, min_cycle_time, added >>
    /\ UNCHANGED << inputVars, passVars, manualVars, coordVars, hostVars >>

\* the service call of a command returns (or fails, which is only logged)
CallReturns ==
    /\ open_calls > 0
    /\ open_calls' = open_calls - 1
    /\ UNCHANGED << clock, enabled, schedule_result, min_cycle_time, added, attr_is_on,
                    last_switch_change, current_switch_state, cmd_state, cmd_time,
                    early_flip >>
    /\ UNCHANGED << inputVars, passVars, manualVars, coordVars, hostVars >>

\* ------------------------------------------------------------------------
\* Initial states
\* ------------------------------------------------------------------------
\* the binary sensor plays no part in a scheduling pass
CycleIdle ==
    /\ clock = 0
    /\ enabled = TRUE
    /\ schedule_result = None
    /\ min_cycle_time = 0
    /\ added = FALSE
    /\ attr_is_on = FALSE
    /\ last_switch_change = None
    /\ current_switch_state = None
    /\ open_calls = 0
    /\ cmd_state = None
    /\ cmd_time = 0
    /\ early_flip = FALSE

\* no pass runs while the binary sensor is observed
PassIdle ==
    /\ now = GridStart
    /\ price_slots = << >>
    /\ solar_forecast = << >>
    /\ home_consumption_w = 0
    /\ live_solar_surplus_w = None
    /\ devices = << >>
    /\ thermostats = << >>
    /\ manual_requests = << >>
    /\ reservations = << >>
    /\ pc = "idle"
    /\ pools = << >>
    /\ shared_slot_info = 0
    /\ active_devices = << >>
    /\ states = << >>
    /\ results = << >>
    /\ idx = 0
    /\ upcoming_slots = << >>
    /\ pool_of = NoPools
    /\ assign_log = << >>
    /\ manual_seen = << >>
    /\ NothingPublished

\* quotes of a price slot: [price, energy_price]
Quotes == {[price |-> 1, energy_price |-> -1], [price |-> 3, energy_price |-> 1]}

NotOn == << FALSE, None, FALSE >>

\* --- the full pass -------------------------------------------------------
PassSwitchA == {Device("sw1", 2, 15, 0, dl, 1, TRUE, Some(1), TRUE) :
                   dl \in {GridStart + SLOT_DURATION_MIN, GridEnd}}
PassSwitchB == {Device("sw2", 3, 30, today, GridEnd, 5, FALSE, None, FALSE) :
                   today \in {0, 30}}
PassSwitchLists ==
    {<< >>} \cup {<< a >> : a \in PassSwitchA}
            \cup {<< b, a >> : a \in PassSwitchA, b \in PassSwitchB}

PassThermoA ==
    {Thermostat("th1", 2, 18, 22, 1, "heat", None, None, temp, TRUE, actual) :
        temp \in {None, Some(18), Some(20)}, actual \in {None, Some(-1)}}
    \cup {Thermostat("th1", 2, 18, 22, 1, "off", None, None, Some(18), TRUE, None)}
PassThermoB == Thermostat("th2", 1, 18, 22, 2, "heat", None, None, Some(19), FALSE, None)
PassThermoLists ==
    {<< >>} \cup {<< a >> : a \in PassThermoA} \cup {<< PassThermoB, a >> : a \in PassThermoA}

PassManualLists == {<< >>, << ManualDevice("m1", 2, None, 30, 5) >>}
PassReservationLists ==
    {<< >>, << [subentry_id |-> "m1", start |-> GridStart,
                end |-> GridStart + 2 * SLOT_DURATION_MIN] >>}

Init ==
    /\ now \in {GridStart + 7, GridStart + SLOT_DURATION_MIN}
    /\ price_slots \in {Rising, Falling, Without(Rising, GridStart)}
    /\ solar_forecast \in Forecasts({4})
    /\ home_consumption_w \in {0, 2}
    /\ live_solar_surplus_w \in {None, Some(8)}
    /\ devices \in PassSwitchLists
    /\ thermostats \in PassThermoLists
    /\ manual_requests \in PassManualLists
    /\ reservations \in PassReservationLists
    /\ PassStart
    /\ CycleIdle
    /\ HostIdle

Next ==
    \/ ReservationEnsure
    \/ ReservationApply
    \/ SwitchSetup
    \/ DeadlineForcedStep
    \/ CostOptimalStep
    \/ ThermostatSetup
    \/ ThermostatDecideStep
    \/ ManualStage

Spec == Init /\ [][Next]_vars

\* --- compute_schedules on its own ------------------------------------------
SwitchLive == {NotOn, << TRUE, Some(1), TRUE >>}
SwitchFirst == {Device("sw1", 2, daily, 0, dl, 1, live[1], live[2], live[3]) :
                   daily \in {15, 30},
                   dl \in {GridStart + SLOT_DURATION_MIN,
                           GridStart + 2 * SLOT_DURATION_MIN, GridEnd},
                   live \in SwitchLive}
SwitchSecond ==
    {Device("sw2", peak, 15, 0, dl, prio, FALSE, None, FALSE) :
        peak \in {2, 3}, dl \in {GridStart + 2 * SLOT_DURATION_MIN, GridEnd},
        prio \in {1, 5}}
    \cup {Device("sw2", 2, 15, 15, GridEnd, 5, FALSE, None, FALSE),
          Device("sw2", 2, 15, 0, GridStart + 5, 5, FALSE, None, FALSE)}
SwitchLists ==
    {<< a >> : a \in SwitchFirst} \cup {<< b, a >> : a \in SwitchFirst, b \in SwitchSecond}

InitSwitch ==
    /\ now \in {GridStart + 7, GridStart + SLOT_DURATION_MIN}
    /\ price_slots \in PriceLists(SUBSET SlotStarts, Quotes)
    /\ solar_forecast \in Forecasts({0, 4}) \ {[h \in GridHours |-> 0]}
    /\ home_consumption_w = 1
    /\ live_solar_surplus_w \in {None, Some(6)}
    /\ devices \in SwitchLists
    /\ thermostats = << >>
    /\ manual_requests = << >>
    /\ reservations = << >>
    /\ PassStart
    /\ CycleIdle
    /\ HostIdle

NextSwitch ==
    \/ ReservationEnsure
    \/ SwitchSetup
    \/ DeadlineForcedStep
    \/ CostOptimalStep
    \/ ThermostatSetup
    \/ ManualStage

SpecSwitch == InitSwitch /\ [][NextSwitch]_vars

\* --- a pass with thermostats only ------------------------------------------
ThermoBands == {<< 18, 22 >>, << 20, 20 >>}
ThermoTemps == {None, Some(18), Some(19), Some(20), Some(21), Some(22)}
ThermoFirst ==
    {Thermostat("th1", 3, band[1], band[2], 1, mode, learned, wh, temp, on, actual) :
        band \in ThermoBands, mode \in {"heat", "off"}, learned \in {None, Some(2)},
        wh \in {None, Some(1), Some(8)}, temp \in ThermoTemps, on \in BOOLEAN,
        actual \in {None, Some(-1)}}
ThermoSecond == Thermostat("th2", 2, 18, 22, 5, "heat", None, None, Some(19), TRUE, None)
ThermoLists == {<< a >> : a \in ThermoFirst} \cup {<< ThermoSecond, a >> : a \in ThermoFirst}

InitThermo ==
    /\ now = GridStart + 7
    /\ price_slots \in PriceLists(SUBSET SlotStarts, Quotes)
    /\ solar_forecast \in Forecasts({4})
    /\ home_consumption_w = 1
    /\ live_solar_surplus_w \in {None, Some(6)}
    /\ devices = << >>
    /\ thermostats \in ThermoLists
    /\ manual_requests = << >>
    /\ reservations = << >>
    /\ PassStart
    /\ CycleIdle
    /\ HostIdle

NextThermo ==
    \/ ReservationEnsure
    \/ SwitchSetup
    \/ ThermostatSetup
    \/ ThermostatDecideStep
    \/ ManualStage

SpecThermo == InitThermo /\ [][NextThermo]_vars

\* --- a pass with two thermostats that share the solar of a slot ------------
\* th1 has the lower priority value; its band of width 5 puts a reading of
\* 20 at urgency 0.6
PairFirst ==
    {Thermostat("th1", 3, 18, 23, 1, "heat", learned, wh, Some(temp), on, actual) :
        learned \in {None, Some(2)}, wh \in {None, Some(8)}, temp \in {18, 20, 21},
        on \in {TRUE}, actual \in {None, Some(1), Some(-1)}}
PairSecond ==
    {Thermostat("th2", 2, 18, 22, 5, "heat", None, None, Some(temp), FALSE, None) :
        temp \in {19, 21}}
PairLists ==
    {<< a, b >> : a \in PairFirst, b \in PairSecond}
        \cup {<< b, a >> : a \in PairFirst, b \in PairSecond}

InitThermoPair ==
    /\ now = GridStart + 7
    /\ price_slots \in PriceLists(SUBSET SlotStarts, Quotes)
    /\ solar_forecast \in Forecasts({1, 4})
    /\ home_consumption_w = 1
    /\ live_solar_surplus_w \in {None, Some(4)}
    /\ devices = << >>
    /\ thermostats \in PairLists
    /\ manual_requests = << >>
    /\ reservations = << >>
    /\ PassStart
    /\ CycleIdle
    /\ HostIdle

NextThermoPair ==
    \/ ReservationEnsure
    \/ SwitchSetup
    \/ ThermostatSetup
    \/ ThermostatDecideStep
    \/ ManualStage

SpecThermoPair == InitThermoPair /\ [][NextThermoPair]_vars

\* --- a pass with one thermostat and prices beyond its look-ahead -----------
\* a price list of HeadroomSlots slots from the current one, all at the
\* dear price but at most one, and no solar; the list may lack the current
\* slot, or be empty
HeadroomStarts == {GridStart + SLOT_DURATION_MIN * i : i \in 0..(HeadroomSlots - 1)}
HeadroomPrices ==
    {[st \in HeadroomStarts \ gap |->
         [price |-> IF st = cheap THEN 1 ELSE 3, energy_price |-> 1]] :
        cheap \in HeadroomStarts \cup {0}, gap \in {{}, {GridStart}}}
      \cup {<< >>}
HeadroomThermostats ==
    {Thermostat("th1", peak, 18, 23, 1, "heat", learned, wh, Some(temp), on, None) :
        peak \in {3, 20}, learned \in {None, Some(2)}, wh \in {None, Some(1), Some(8)},
        temp \in {19, 21, 22}, on \in BOOLEAN}

InitHeadroom ==
    /\ now = GridStart + 7
    /\ price_slots \in HeadroomPrices
    /\ solar_forecast = << >>
    /\ home_consumption_w = 1
    /\ live_solar_surplus_w = None
    /\ devices = << >>
    /\ thermostats \in {<< th >> : th \in HeadroomThermostats}
    /\ manual_requests = << >>
    /\ reservations = << >>
    /\ PassStart
    /\ CycleIdle
    /\ HostIdle

NextHeadroom ==
    \/ ReservationEnsure
    \/ SwitchSetup
    \/ ThermostatSetup
    \/ ThermostatDecideStep
    \/ ManualStage

SpecHeadroom == InitHeadroom /\ [][NextHeadroom]_vars

\* --- the schedule binary sensor of one switch device -----------------------
InitCycle ==
    /\ clock = 0
    /\ enabled = TRUE
    /\ schedule_result \in {None, Some(TRUE), Some(FALSE)}
    /\ min_cycle_time \in {0, 2, 3}
    /\ added = FALSE
    /\ attr_is_on = (schedule_result = Some(TRUE))
    /\ last_switch_change = None
    /\ current_switch_state = None
    /\ open_calls = 0
    /\ cmd_state = None
    /\ cmd_time = 0
    /\ early_flip = FALSE
    /\ PassIdle
    /\ HostIdle

NextCycle ==
    \/ AddedToHass
    \/ Tick
    \/ SlotUpdate
    \/ SetEnabled
    \/ CallReturns

SpecCycle == InitCycle /\ [][NextCycle]_vars

\* --- the manual-device ranking ---------------------------------------------
\* the price slots of the manual grid: a run of slots before and after today's
\* 06:00, and the two slots around tomorrow's 06:00
ManualGridStart == 5 * MINUTES_PER_HOUR + 2 * SLOT_DURATION_MIN
ManualToday == {ManualGridStart + SLOT_DURATION_MIN * i : i \in 0..(ManualGridSlots - 1)}
ManualTomorrow == {MinutesPerDay + 6 * MINUTES_PER_HOUR - SLOT_DURATION_MIN,
                   MinutesPerDay + 6 * MINUTES_PER_HOUR}
ManualPresent ==
    {ManualToday \cup ManualTomorrow,
     ManualToday,
     (ManualToday \cup ManualTomorrow) \ {ManualGridStart + 3 * SLOT_DURATION_MIN}}
ManualPriceLists ==
    {[st \in P |-> IF st \in ManualToday THEN q[st] ELSE [price |-> 1, energy_price |-> 1]] :
        q \in [ManualToday -> Quotes], P \in ManualPresent}
ManualForecasts ==
    {<< >>} \cup {[h \in {HourKey(st) : st \in ManualToday \cup ManualTomorrow} |->
                     IF h = HourKey(6 * MINUTES_PER_HOUR) THEN morning ELSE 2] :
                  morning \in {1, 2}}

\* delay offsets in hours, as fractions
ManualDelays ==
    {None,
     Some(<< << 1, 4 >> >>),
     Some(<< << 1, 2 >>, << 1, 4 >> >>),
     Some(<< << 95, 4 >>, << 24, 1 >> >>)}
ManualFirst ==
    {ManualDeviceDelayed("m1", 2, avg, cycle, 5, delays) :
        avg \in {None, Some(1)}, cycle \in {15, 25}, delays \in ManualDelays}
ManualSecond == ManualDevice("m2", 3, None, 30, 5)
ManualLists ==
    {<< a >> : a \in ManualFirst}
    \cup {<< ManualSecond, a >> : a \in {m \in ManualFirst : m.delay_intervals_h = None}}
ManualReservationLists ==
    {<< >>} \cup
    {<< [subentry_id |-> id, start |-> ManualGridStart + SLOT_DURATION_MIN,
         end |-> ManualGridStart + SLOT_DURATION_MIN + 40] >> : id \in {"m1", "m2"}}

InitManual ==
    /\ now \in {ManualGridStart + 10, ManualGridStart + SLOT_DURATION_MIN,
                6 * MINUTES_PER_HOUR, 6 * MINUTES_PER_HOUR + 8}
    /\ price_slots \in ManualPriceLists
    /\ solar_forecast \in ManualForecasts
    /\ home_consumption_w = 0
    /\ live_solar_surplus_w = None
    /\ devices = << >>
    /\ thermostats = << >>
    /\ manual_requests \in ManualLists
    /\ reservations \in ManualReservationLists
    /\ PassStart
    /\ CycleIdle
    /\ HostIdle

NextManual ==
    \/ ReservationEnsure
    \/ ReservationApply
    \/ SwitchSetup
    \/ ThermostatSetup
    \/ ManualStage
    \/ ManualRankAgain

SpecManual == InitManual /\ [][NextManual]_vars

\* --- the coordinator over several passes -----------------------------------
CoordSwitchLists ==
    {<< >>, << Device("sw1", 2, 15, 0, GridEnd, 1, FALSE, None, FALSE) >>,
     << Device("sw1", 2, 15, 15, GridEnd, 1, FALSE, None, FALSE) >>}
CoordThermoLists ==
    {<< >>, << Thermostat("th1", 2, 18, 22, 1, "heat", None, None, Some(18), FALSE, None) >>}

\* the results the coordinator publishes when a pass raised: the except
\* clause logs and assigns nothing, whatever the pass had computed so far
ResultsAfterFailureCleared(published, computed) == << >>
ResultsAfterFailure(published, computed) == published

\* what a stage of the pass can raise: a lookup or conversion error on a
\* state or subentry, or an error of a Home Assistant call; all of them are
\* subclasses of Exception, which the except clause names
PassErrors == {"KeyError", "ValueError", "HomeAssistantError"}
ExceptCatches(e) == e \in {"KeyError", "ValueError", "HomeAssistantError", "Exception"}

\* _has_managed_devices, for the subentries the requests are built from
HasManagedDevices(devs, thermos, manuals) ==
    devs # << >> \/ thermos # << >> \/ manuals # << >>

\* PriceCoordinator.async_run_scheduler up to the call of the scheduler
\* module: an early return publishes an empty schedule, otherwise a pass
\* starts on the inputs of the moment
CoordRunScheduler ==
    /\ pc \in {"idle", "failed"}
    /\ passes < MaxPasses
    /\ passes' = passes + 1
    /\ \E t \in {GridStart + 7, GridStart + SLOT_DURATION_MIN},
          ps \in {Rising, Falling},
          devs \in CoordSwitchLists,
          thermos \in CoordThermoLists,
          manuals \in PassManualLists :
          IF ~enabled \/ ~HasManagedDevices(devs, thermos, manuals)
          THEN /\ schedule_results' = << >>
               /\ last_completed' = << >>
               /\ pc' = "idle"
               /\ UNCHANGED << inputVars, pools, shared_slot_info, active_devices,
                               states, results, idx, upcoming_slots, pool_of,
                               assign_log, manual_seen >>
          ELSE /\ now' = t
               /\ price_slots' = ps
               /\ devices' = devs
               /\ thermostats' = thermos
               /\ manual_requests' = manuals
               /\ pc' = "reservations"
               /\ pools' = << >>
               /\ shared_slot_info' = 0
               /\ active_devices' = << >>
               /\ states' = << >>
               /\ results' = << >>
               /\ idx' = 0
               /\ upcoming_slots' = << >>
               /\ pool_of' = NoPools
               /\ assign_log' = << >>
               /\ manual_seen' = << >>
               /\ UNCHANGED << solar_forecast, home_consumption_w,
                               live_solar_surplus_w, reservations, schedule_results,
                               last_completed >>
    /\ UNCHANGED << propagated, cycleVars, manualVars, hostVars >>

\* the pass returns: self.schedule_results = await ...async_run_scheduler(...)
CoordPassReturns ==
    /\ pc = "done"
    /\ schedule_results' = results
    /\ last_completed' = results
    /\ pc' = "idle"
    /\ UNCHANGED << pools, shared_slot_info, active_devices, states, results, idx,
                    upcoming_slots, pool_of, assign_log, manual_seen >>
    /\ UNCHANGED << inputVars, cycleVars, manualVars, propagated, passes, hostVars >>

\* a stage of the pass raises an Exception: the except clause of
\* PriceCoordinator.async_run_scheduler logs it and returns normally
CoordPassRaises ==
    /\ pc \in {"reservations", "apply_reservations", "switch", "phase1", "phase2",
               "thermostats", "decide", "manual"}
    /\ schedule_results' = ResultsAfterFailure(schedule_results, results)
    /\ \E e \in PassErrors : propagated' = (propagated \/ ~ExceptCatches(e))
    /\ pc' = "failed"
    /\ UNCHANGED << pools, shared_slot_info, active_devices, states, results, idx,
                    upcoming_slots, pool_of, assign_log, manual_seen >>
    /\ UNCHANGED << inputVars, cycleVars, manualVars, last_completed, passes, hostVars >>

InitCoord ==
    /\ CycleIdle
    /\ PassIdle
    /\ HostIdle

NextCoord ==
    \/ CoordRunScheduler
    \/ ReservationEnsure
    \/ SwitchSetup
    \/ DeadlineForcedStep
    \/ CostOptimalStep
    \/ ThermostatSetup
    \/ ThermostatDecideStep
    \/ ManualStage
    \/ CoordPassReturns
    \/ CoordPassRaises
    \/ AddedToHass
    \/ SetEnabled
    \/ CallReturns

SpecCoord == InitCoord /\ [][NextCoord]_vars

\* --- reservations of manual devices ----------------------------------------
ReservationWindowFallback(rankings, id) ==
    IF id \in DOMAIN rankings /\ rankings[id].recommended_start # None
    THEN Some(<< rankings[id].recommended_start[1], rankings[id].recommended_end[1] >>)
    ELSE Some(<< now, now + SLOT_DURATION_MIN >>)

\* the window async_reserve_manual_device takes from the latest rankings when
\* it is given no start time: None without a ranking or a recommendation
ReservationWindow(rankings, id) ==
    IF id \notin DOMAIN rankings THEN None
    ELSE IF rankings[id].recommended_start = None \/ rankings[id].recommended_end = None
    THEN None
    ELSE Some(<< rankings[id].recommended_start[1], rankings[id].recommended_end[1] >>)

\* get_active_reservations: the reservations that have not ended at t, as the
\* items of the map
ActiveReservations(map, t) ==
    LET ids == {id \in DOMAIN map : map[id][2] > t}
        Items[S \in SUBSET ids] ==
            IF S = {} THEN << >>
            ELSE LET id == CHOOSE x \in S : TRUE
                 IN << [subentry_id |-> id, start |-> map[id][1], end |-> map[id][2]] >>
                        \o Items[S \ {id}]
    IN Items[ids]

\* async_reserve_manual_device as the reserve button calls it (no start
\* time), between two passes: without a window it only logs; with one it
\* records and saves the reservation and runs the scheduler again
ReserveManualDevice ==
    /\ pc = "done"
    /\ Len(reserve_log) < MaxReserves
    /\ \E id \in {"m1", "m2"} :
          LET window == ReservationWindow(manual_results, id) IN
          IF window = None
          THEN /\ reserve_log' = Append(reserve_log,
                                        [subentry_id |-> id, reserved |-> FALSE,
                                         raised |-> FALSE])
               /\ UNCHANGED << manual_reservations, stored_reservations, passes,
                               reservations, passVars >>
          ELSE LET map == (id :> window[1]) @@ manual_reservations IN
               /\ reserve_log' = Append(reserve_log,
                                        [subentry_id |-> id, reserved |-> TRUE,
                                         raised |-> FALSE])
               /\ manual_reservations' = map
               /\ stored_reservations' = map
               /\ passes' = passes + 1
               /\ reservations' = ActiveReservations(map, now)
               /\ pc' = "reservations"
               /\ pools' = << >>
               /\ shared_slot_info' = 0
               /\ active_devices' = << >>
               /\ states' = << >>
               /\ results' = << >>
               /\ idx' = 0
               /\ upcoming_slots' = << >>
               /\ pool_of' = NoPools
               /\ assign_log' = << >>
               /\ manual_seen' = << >>
    /\ UNCHANGED << now, price_slots, solar_forecast, home_consumption_w,
                    live_solar_surplus_w, devices, thermostats, manual_requests >>
    /\ UNCHANGED << cycleVars, manualVars, schedule_results, last_completed, propagated,
                    trackerVars, cacheVars, queryVars, triggerVars, costVars >>

\* a device whose cycle is longer than the priced slots, so that its ranking
\* holds no window
ReserveLists ==
    {<< ManualDevice("m1", 2, None, cycle, 5) >> : cycle \in {15, 25}}
    \cup {<< ManualDevice("m2", 3, None, cycle, 5), ManualDevice("m1", 2, None, 15, 5) >> :
             cycle \in {30, 24 * MINUTES_PER_HOUR}}

InitReserve ==
    /\ now \in {ManualGridStart + 10, 6 * MINUTES_PER_HOUR}
    /\ price_slots \in {[st \in P |-> q] : P \in ManualPresent \cup {{}}, q \in Quotes}
    /\ solar_forecast \in ManualForecasts
    /\ home_consumption_w = 0
    /\ live_solar_surplus_w = None
    /\ devices = << >>
    /\ thermostats = << >>
    /\ manual_requests \in ReserveLists
    /\ reservations = << >>
    /\ PassStart
    /\ CycleIdle
    /\ HostIdle

NextReserve ==
    \/ ReservationEnsure
    \/ ReservationApply
    \/ SwitchSetup
    \/ ThermostatSetup
    \/ ManualStage
    \/ ReserveManualDevice

SpecReserve == InitReserve /\ [][NextReserve]_vars

\* --- the slot pool with and without a live reading -------------------------
\* forecasts and live readings whose ratios are whole numbers
InitPool ==
    /\ now \in {GridStart + 7, GridStart + SLOT_DURATION_MIN}
    /\ price_slots \in PriceLists(SUBSET SlotStarts, Quotes)
    /\ solar_forecast \in Forecasts({0, 2, 4})
    /\ home_consumption_w = 0
    /\ live_solar_surplus_w \in {None, Some(1), Some(2), Some(4), Some(8)}
    /\ devices = << >>
    /\ thermostats = << >>
    /\ manual_requests = << ManualDevice("m1", 2, None, 15, 5) >>
    /\ reservations = << >>
    /\ PassStart
    /\ CycleIdle
    /\ HostIdle

NextPool ==
    \/ ReservationEnsure
    \/ SwitchSetup
    \/ ThermostatSetup
    \/ ManualStage

SpecPool == InitPool /\ [][NextPool]_vars

\* --- the thermal tracker ---------------------------------------------------
FracScale(k, a) == << k[1] * a[1], k[2] * a[2] >>

\* a quotient in lowest terms: the same number, kept small
RECURSIVE Gcd(_, _)
Gcd(a, b) == IF b = 0 THEN a ELSE Gcd(b, a % b)
FracNorm(a) == << a[1] \div Gcd(a[1], a[2]), a[2] \div Gcd(a[1], a[2]) >>

\* ThermalTracker.on_heater_started
OnHeaterStarted(tr, current_temp, t) ==
    [tr EXCEPT !.session_start_temp = Some(current_temp),
               !.session_start_time = Some(t)]

OnHeaterStoppedKeepsSession(tr, current_temp, avg_power_w, t) ==
    IF tr.session_start_temp = None \/ tr.session_start_time = None THEN tr
    ELSE LET duration_minutes == t - tr.session_start_time[1]
             delta_temp == current_temp - tr.session_start_temp[1]
         IN IF duration_minutes < MIN_SESSION_MINUTES \/ delta_temp < MIN_DELTA_TEMP
               \/ avg_power_w <= 0
            THEN tr
            ELSE LET sample == FracNorm(<< avg_power_w * duration_minutes * 10,
                                           MINUTES_PER_HOUR * delta_temp >>)
                 IN [tr EXCEPT !.session_start_temp = None,
                               !.session_start_time = None,
                               !.wh_per_degree = Some(sample),
                               !.sample_count = @ + 1]

\* ThermalTracker.on_heater_stopped; the sample is energy_wh / delta_temp
\* with delta_temp in degrees
OnHeaterStopped(tr, current_temp, avg_power_w, t) ==
    IF tr.session_start_temp = None \/ tr.session_start_time = None THEN tr
    ELSE LET duration_minutes == t - tr.session_start_time[1]
             delta_temp == current_temp - tr.session_start_temp[1]
             reset == [tr EXCEPT !.session_start_temp = None,
                                 !.session_start_time = None]
         IN IF duration_minutes < MIN_SESSION_MINUTES THEN reset
            ELSE IF delta_temp < MIN_DELTA_TEMP THEN reset
            ELSE IF avg_power_w <= 0 THEN reset
            ELSE LET sample_wh_per_degree ==
                         FracNorm(<< avg_power_w * duration_minutes * 10,
                                     MINUTES_PER_HOUR * delta_temp >>)
                     ema == IF tr.wh_per_degree = None THEN sample_wh_per_degree
                            ELSE FracNorm(FracAdd(
                                     FracNorm(FracScale(EMA_ALPHA, sample_wh_per_degree)),
                                     FracNorm(FracScale(<< EMA_ALPHA[2] - EMA_ALPHA[1],
                                                           EMA_ALPHA[2] >>,
                                                        tr.wh_per_degree[1]))))
                 IN [reset EXCEPT !.wh_per_degree = Some(ema),
                                  !.sample_count = @ + 1]

\* what the switch listener reads when the heater changes state
TrackerTemps == {200, 201, 202, 210}
TrackerPowers == {0, 1000}
TrackerElapsed == {4, 5, 30}

\* _on_switch_change, heater turned on
HeaterStarted ==
    /\ tracker_event.n < MaxTrackerEvents
    /\ \E temp \in TrackerTemps, elapsed \in TrackerElapsed :
          LET t == tracker_event.at + elapsed IN
          /\ tracker' = OnHeaterStarted(tracker, temp, t)
          /\ tracker_event' = [n |-> tracker_event.n + 1, kind |-> "started",
                               temp |-> temp, power |-> 0, at |-> t]
    /\ UNCHANGED heater
    /\ UNCHANGED << inputVars, passVars, cycleVars, manualVars, coordVars, reserveVars,
                    cacheVars, queryVars, triggerVars, costVars >>

\* _on_switch_change, heater turned off
HeaterStopped ==
    /\ tracker_event.n < MaxTrackerEvents
    /\ \E temp \in TrackerTemps, power \in TrackerPowers, elapsed \in TrackerElapsed :
          LET t == tracker_event.at + elapsed IN
          /\ tracker' = OnHeaterStopped(tracker, temp, power, t)
          /\ tracker_event' = [n |-> tracker_event.n + 1, kind |-> "stopped",
                               temp |-> temp, power |-> power, at |-> t]
    /\ UNCHANGED heater
    /\ UNCHANGED << inputVars, passVars, cycleVars, manualVars, coordVars, reserveVars,
                    cacheVars, queryVars, triggerVars, costVars >>

\* what the temperature sensor shows when the switch changes state: nothing
\* while it is unknown or unavailable
ListenerTemps == {None, Some(200), Some(210)}
ListenerElapsed == {4, 30}

\* _on_switch_change: the heater switch goes from off to on or from on to
\* off; the tracker is told only when the temperature sensor has a reading
SwitchChange ==
    /\ tracker_event.n < MaxTrackerEvents
    /\ \E current_temp \in ListenerTemps, avg_power \in TrackerPowers,
          elapsed \in ListenerElapsed :
          LET t == tracker_event.at + elapsed
              was_on == heater.is_on
              is_on == ~heater.is_on
              after == IF ~was_on /\ is_on /\ current_temp # None
                       THEN OnHeaterStarted(tracker, current_temp[1], t)
                       ELSE IF was_on /\ ~is_on /\ current_temp # None
                       THEN OnHeaterStopped(tracker, current_temp[1], avg_power, t)
                       ELSE tracker
          IN /\ (is_on => avg_power = 0)
             /\ tracker' = after
             /\ tracker_event' =
                    [n |-> tracker_event.n + 1,
                     kind |-> IF is_on THEN "started" ELSE "stopped",
                     temp |-> IF current_temp = None THEN 0 ELSE current_temp[1],
                     power |-> avg_power, at |-> t]
             /\ heater' =
                    [is_on |-> is_on,
                     turned_on_at |-> IF is_on THEN Some(t) ELSE heater.turned_on_at,
                     folded |-> IF after.sample_count > tracker.sample_count
                                THEN Some([opened_at |-> tracker.session_start_time,
                                           turned_on_at |-> heater.turned_on_at])
                                ELSE heater.folded]
    /\ UNCHANGED << inputVars, passVars, cycleVars, manualVars, coordVars, reserveVars,
                    cacheVars, queryVars, triggerVars, costVars >>

\* the listener starts with a new tracker while the heater is off or on
InitListener ==
    /\ PassIdle
    /\ CycleIdle
    /\ manual_reservations = << >>
    /\ stored_reservations = << >>
    /\ reserve_log = << >>
    /\ tracker = NewThermalTracker
    /\ tracker_event = NoTrackerEvent
    /\ heater \in {HeaterOff, [HeaterOff EXCEPT !.is_on = TRUE]}
    /\ cached_slots = << >>
    /\ fetch_log = [n |-> 0, now |-> 0]
    /\ refresh = NoRefresh
    /\ runtime_query = NoRuntimeQuery
    /\ running_passes = {}
    /\ triggered = 0
    /\ cost_call = << >>
    /\ order_results = << >>

NextListener == SwitchChange

SpecListener == InitListener /\ [][NextListener]_vars

\* a new tracker, or one restored by ThermalTracker.from_dict
InitTracker ==
    /\ PassIdle
    /\ CycleIdle
    /\ manual_reservations = << >>
    /\ stored_reservations = << >>
    /\ reserve_log = << >>
    /\ tracker \in {NewThermalTracker,
                    [NewThermalTracker EXCEPT !.wh_per_degree = Some(<< 500, 1 >>),
                                              !.sample_count = 3]}
    /\ tracker_event = NoTrackerEvent
    /\ heater = HeaterOff
    /\ cached_slots = << >>
    /\ fetch_log = [n |-> 0, now |-> 0]
    /\ refresh = NoRefresh
    /\ runtime_query = NoRuntimeQuery
    /\ running_passes = {}
    /\ triggered = 0
    /\ cost_call = << >>
    /\ order_results = << >>

NextTracker ==
    \/ HeaterStarted
    \/ HeaterStopped

SpecTracker == InitTracker /\ [][NextTracker]_vars

\* --- the price cache -------------------------------------------------------
\* timedelta(hours=1): how long a slot that has started is kept
PriceLookback == MINUTES_PER_HOUR

FetchTibberPricesOverwriting(cache, prices, t) ==
    LET kept == {st \in DOMAIN cache \cup DOMAIN prices : ~(st < t - PriceLookback)}
    IN [st \in kept |-> IF st \in DOMAIN prices THEN prices[st] ELSE cache[st]]

\* _fetch_tibber_prices for one home: the cache after the provider
\* answered prices at time t
FetchTibberPrices(cache, prices, t) ==
    LET merged == [st \in DOMAIN cache \cup DOMAIN prices |->
                     IF st \in DOMAIN cache THEN cache[st] ELSE prices[st]]
        cutoff == t - PriceLookback
        expired == {ts \in DOMAIN merged : ts < cutoff}
    IN [st \in DOMAIN merged \ expired |-> merged[st]]

\* hourly price slots and what the provider may quote for each
CacheStarts == {0, 60, 120}
PriceSlots == {[price |-> 1, energy_price |-> 1], [price |-> 2, energy_price |-> 1],
               [price |-> 2, energy_price |-> 2]}
FetchSteps == {0, 45, 61}

\* _async_update_data, the provider answers
FetchPrices ==
    /\ fetch_log.n < MaxFetches
    /\ \E starts \in SUBSET CacheStarts \ {{}}, elapsed \in FetchSteps :
          \E prices \in [starts -> PriceSlots] :
             /\ cached_slots' = FetchTibberPrices(cached_slots, prices,
                                                  fetch_log.now + elapsed)
             /\ fetch_log' = [n |-> fetch_log.n + 1, now |-> fetch_log.now + elapsed]
    /\ UNCHANGED refresh
    /\ UNCHANGED << inputVars, passVars, cycleVars, manualVars, coordVars, reserveVars,
                    trackerVars, queryVars, triggerVars, costVars >>

\* _async_update_data, the provider fails or returns no home: UpdateFailed
FetchFails ==
    /\ fetch_log.n < MaxFetches
    /\ \E elapsed \in FetchSteps :
          fetch_log' = [n |-> fetch_log.n + 1, now |-> fetch_log.now + elapsed]
    /\ UNCHANGED << inputVars, passVars, cycleVars, manualVars, coordVars, reserveVars,
                    trackerVars, cached_slots, refresh, queryVars, triggerVars,
                    costVars >>

InitCache ==
    /\ PassIdle
    /\ CycleIdle
    /\ HostIdle

NextCache ==
    \/ FetchPrices
    \/ FetchFails

SpecCache == InitCache /\ [][NextCache]_vars

\* --- one refresh against a failing provider -----------------------------------
\* what async_get_prices does when called: it returns the homes, raises
\* TibberApiError (a timeout, a server error) or raises TibberAuthError
ProviderAnswers == {"ok", "transient", "auth"}
\* the answers to as many successive calls as a refresh could make
ProviderScripts == [1..4 -> ProviderAnswers]

\* _async_update_data -> _fetch_tibber_prices: one call of async_get_prices;
\* TibberApiError, and TibberAuthError which is one, becomes UpdateFailed
RefreshPrices ==
    /\ refresh.status = "pending"
    /\ refresh' = [refresh EXCEPT !.calls = @ + 1,
                                  !.status = IF refresh.script[refresh.calls + 1] = "ok"
                                             THEN "success" ELSE "failed"]
    /\ UNCHANGED << inputVars, passVars, cycleVars, manualVars, coordVars, reserveVars,
                    trackerVars, cached_slots, fetch_log, queryVars, triggerVars,
                    costVars >>

InitRefresh ==
    /\ PassIdle
    /\ CycleIdle
    /\ manual_reservations = << >>
    /\ stored_reservations = << >>
    /\ reserve_log = << >>
    /\ tracker = NewThermalTracker
    /\ tracker_event = NoTrackerEvent
    /\ heater = HeaterOff
    /\ cached_slots = << >>
    /\ fetch_log = [n |-> 0, now |-> 0]
    /\ \E script \in ProviderScripts :
          refresh = [script |-> script, calls |-> 0, sleeps |-> << >>,
                     status |-> "pending"]
    /\ runtime_query = NoRuntimeQuery
    /\ running_passes = {}
    /\ triggered = 0
    /\ cost_call = << >>
    /\ order_results = << >>

NextRefresh == RefreshPrices

SpecRefresh == InitRefresh /\ [][NextRefresh]_vars

\* --- the runtime a switch has had today -------------------------------------
\* _compute_on_seconds, in minutes: the loop over the first k state changes
\* gives previous_matches, last_change_ts, elapsed and whether it broke off
RECURSIVE OnSecondsLoop(_, _, _, _, _)
OnSecondsLoop(changes, k, start_ts, end_ts, now_ts) ==
    IF k = 0
    THEN [previous_matches |-> FALSE, last_change_ts |-> 0, elapsed |-> 0,
          broke |-> FALSE]
    ELSE LET before == OnSecondsLoop(changes, k - 1, start_ts, end_ts, now_ts)
             state == changes[k]
         IN IF before.broke THEN before
            ELSE IF state.last_changed > end_ts \/ state.last_changed > now_ts
            THEN [before EXCEPT !.broke = TRUE]
            ELSE [previous_matches |-> state.state = "on",
                  last_change_ts |-> Max(start_ts, state.last_changed),
                  elapsed |-> IF before.previous_matches
                              THEN before.elapsed
                                     + (state.last_changed - before.last_change_ts)
                              ELSE before.elapsed,
                  broke |-> FALSE]

ComputeOnSeconds(changes, start_ts, end_ts, now_ts) ==
    LET after == OnSecondsLoop(changes, Len(changes), start_ts, end_ts, now_ts)
    IN IF after.previous_matches
       THEN after.elapsed + (Min(end_ts, now_ts) - after.last_change_ts)
       ELSE after.elapsed

\* async_get_runtime_today_minutes: the minutes returned, or the exception
\* that leaves the function; get_instance raises KeyError when there is no
\* recorder, and the history query runs outside the try
GetRuntimeTodayMinutes(recorder, changes, end) ==
    IF recorder = "missing" THEN [minutes |-> Some(0), raised |-> FALSE]
    ELSE IF recorder = "raising" THEN [minutes |-> None, raised |-> TRUE]
    ELSE [minutes |-> Some(ComputeOnSeconds(changes, 0, end, end)), raised |-> FALSE]

\* the history store, and the state changes it holds since before midnight
Recorders == {"missing", "raising", "ok"}
StateChanges == [state : {"on", "off"}, last_changed : {0 - 10, 10, 30, 50}]
Histories ==
    {<< >>} \cup {<< s1 >> : s1 \in StateChanges}
            \cup {<< p[1], p[2] >> : p \in {q \in StateChanges \X StateChanges :
                                              /\ q[2].last_changed > q[1].last_changed
                                              /\ q[2].state # q[1].state}}
QueryTimes == {20, 40, 60}

\* _async_populate_switch_devices asks for one switch's runtime
RuntimeQuery ==
    /\ \E recorder \in Recorders, changes \in Histories, end \in QueryTimes :
          LET got == GetRuntimeTodayMinutes(recorder, changes, end) IN
          runtime_query' = [recorder |-> recorder, states |-> changes, end |-> end,
                            minutes |-> got.minutes, raised |-> got.raised]
    /\ UNCHANGED << inputVars, passVars, cycleVars, manualVars, coordVars, reserveVars,
                    trackerVars, cacheVars, triggerVars, costVars >>

InitRuntime ==
    /\ PassIdle
    /\ CycleIdle
    /\ HostIdle

NextRuntime == RuntimeQuery

SpecRuntime == InitRuntime /\ [][NextRuntime]_vars

\* --- what starts a pass ------------------------------------------------------
\* the callers of PriceCoordinator.async_run_scheduler: the slot timer and
\* the solar and temperature listeners through _async_slot_update, the
\* zeus.run_scheduler service, a reservation, the number and climate
\* entities and the master switch
Triggers == {"slot", "solar", "temperature", "service", "reservation", "enable"}

\* a trigger calls async_run_scheduler: nothing is held or awaited before
\* the pass begins, whatever else is in flight; the pass then waits for the
\* history store and the forecast
TriggerStartsPass ==
    /\ added
    /\ triggered < MaxTriggers
    /\ \E trigger \in Triggers, on \in BOOLEAN :
          running_passes' = running_passes \cup
              {[id |-> triggered + 1, trigger |-> trigger, should_be_on |-> on,
                passes_running |-> Cardinality(running_passes),
                commands_open |-> open_calls]}
    /\ triggered' = triggered + 1
    /\ UNCHANGED << inputVars, passVars, cycleVars, manualVars, coordVars, reserveVars,
                    trackerVars, cacheVars, queryVars, costVars >>

\* a pass returns: its results are published, the listeners are notified
\* and the sensor commands the switch without waiting for the call
PassCompletes ==
    /\ open_calls < MaxOpenCalls
    /\ \E p \in running_passes :
          /\ running_passes' = running_passes \ {p}
          /\ schedule_result' = Some(p.should_be_on)
          /\ HandleCoordinatorUpdate(enabled, Some(p.should_be_on))
    /\ UNCHANGED << clock, enabled, min_cycle_time, added, triggered >>
    /\ UNCHANGED << inputVars, passVars, manualVars, coordVars, reserveVars,
                    trackerVars, cacheVars, queryVars, costVars >>

\* the sensor has been added and the call of its initial sync has returned,
\* so that every call open later was issued for a pass
InitTrigger ==
    /\ clock = 0
    /\ enabled = TRUE
    /\ schedule_result = None
    /\ min_cycle_time = 0
    /\ added = TRUE
    /\ attr_is_on = FALSE
    /\ last_switch_change = Some(0)
    /\ current_switch_state = Some(FALSE)
    /\ open_calls = 0
    /\ cmd_state = Some(FALSE)
    /\ cmd_time = 0
    /\ early_flip = FALSE
    /\ PassIdle
    /\ HostIdle

NextTrigger ==
    \/ TriggerStartsPass
    \/ PassCompletes
    \/ CallReturns

SpecTrigger == InitTrigger /\ [][NextTrigger]_vars

\* --- the marginal cost of a slot ---------------------------------------------
\* slots with any price and export price, zero and negative ones included,
\* and wattages from zero
CostPrices == (0 - 1)..3
CostExports == (0 - 1)..2
CostWatts == 0..3

\* _cost_for_device_in_slot is asked for one slot and one wattage
CostQuery ==
    /\ \E price \in CostPrices, export \in CostExports, remaining \in CostWatts,
          watts \in CostWatts :
          LET slot == [price |-> price, energy_price |-> export,
                       remaining_solar_w |-> remaining]
          IN cost_call' = << [slot |-> slot, watts |-> watts,
                              cost |-> CostForDeviceInSlot(slot, watts)] >>
    /\ UNCHANGED order_results
    /\ UNCHANGED << inputVars, passVars, cycleVars, manualVars, coordVars, reserveVars,
                    trackerVars, cacheVars, queryVars, triggerVars >>

InitCost ==
    /\ PassIdle
    /\ CycleIdle
    /\ HostIdle

NextCost == CostQuery

SpecCost == InitCost /\ [][NextCost]_vars

\* --- compute_schedules on a device list and on the list reversed ----------------
\* every combination of on/off, live reading and actual-power accounting
OrderLive == {<< on, actual, use >> : on \in BOOLEAN,
                                      actual \in {None, Some(0), Some(1), Some(0 - 1)},
                                      use \in BOOLEAN}
OrderFirst == {Device("sw1", 2, daily, 0, dl, 1, live[1], live[2], live[3]) :
                  daily \in {15, 30},
                  dl \in {GridStart + SLOT_DURATION_MIN, GridEnd},
                  live \in OrderLive}
\* a second device of the same wattage, of the same or of a lower priority
OrderSecond == {Device("sw2", 2, 15, 0, GridEnd, prio, FALSE, None, FALSE) :
                   prio \in {1, 5}}
OrderLists ==
    {<< a >> : a \in OrderFirst}
        \cup {<< a, b >> : a \in OrderFirst, b \in OrderSecond}
        \cup {<< b, a >> : a \in OrderFirst, b \in OrderSecond}

\* compute_schedules has returned; it is called again with the same inputs
\* and the device list reversed
OrderRerun ==
    /\ pc = "thermostats"
    /\ order_results = << >>
    /\ order_results' = << results >>
    /\ devices' = [i \in 1..Len(devices) |-> devices[Len(devices) + 1 - i]]
    /\ pc' = "reservations"
    /\ pools' = << >>
    /\ shared_slot_info' = 0
    /\ active_devices' = << >>
    /\ states' = << >>
    /\ results' = << >>
    /\ idx' = 0
    /\ pool_of' = NoPools
    /\ assign_log' = << >>
    /\ UNCHANGED << upcoming_slots, manual_seen, cost_call >>
    /\ UNCHANGED << now, price_slots, solar_forecast, home_consumption_w,
                    live_solar_surplus_w, thermostats, manual_requests, reservations >>
    /\ UNCHANGED << cycleVars, manualVars, coordVars, reserveVars, trackerVars,
                    cacheVars, queryVars, triggerVars >>

InitOrder ==
    /\ now \in {GridStart + 7, GridStart + SLOT_DURATION_MIN}
    /\ price_slots \in {Rising, Falling}
    /\ solar_forecast \in Forecasts({0, 4})
    /\ home_consumption_w = 1
    /\ live_solar_surplus_w = None
    /\ devices \in OrderLists
    /\ thermostats = << >>
    /\ manual_requests = << >>
    /\ reservations = << >>
    /\ PassStart
    /\ CycleIdle
    /\ HostIdle

NextOrder ==
    \/ ReservationEnsure
    \/ SwitchSetup
    \/ DeadlineForcedStep
    \/ CostOptimalStep
    \/ OrderRerun

SpecOrder == InitOrder /\ [][NextOrder]_vars

\* --- the loop of phase 2 -----------------------------------------------------
LoopFirst == {Device("sw1", 2, daily, 0, dl, 1, FALSE, None, FALSE) :
                 daily \in {15, 30}, dl \in {GridStart + SLOT_DURATION_MIN, GridEnd}}
LoopLists ==
    {<< a >> : a \in LoopFirst} \cup {<< a, b >> : a \in LoopFirst, b \in OrderSecond}

InitLoop ==
    /\ now = GridStart + 7
    /\ price_slots \in {Rising, Falling}
    /\ solar_forecast \in {<< >>, [h \in GridHours |-> 4]}
    /\ home_consumption_w = 1
    /\ live_solar_surplus_w = None
    /\ devices \in LoopLists
    /\ thermostats = << >>
    /\ manual_requests = << >>
    /\ reservations = << >>
    /\ PassStart
    /\ CycleIdle
    /\ HostIdle

NextLoop ==
    \/ ReservationEnsure
    \/ SwitchSetup
    \/ DeadlineForcedStep
    \/ CostOptimalStep

\* _apply_cost_optimal is a loop of synchronous code: once entered it keeps
\* taking iterations until it breaks.  This is weak fairness of
\* CostOptimalStep written out: an iteration is enabled exactly while
\* pc = "phase2", and every iteration changes pc or assign_log
SpecLoop ==
    /\ InitLoop
    /\ [][NextLoop]_vars
    /\ ([]<>(pc # "phase2") \/ []<><< CostOptimalStep >>_vars)

\* ------------------------------------------------------------------------
\* Properties
\* ------------------------------------------------------------------------
Consumers == {"reservation", "switch", "thermostat", "manual"}

\* C1: within a pass, remaining_solar_w of every slot of a pool never
\* increases from one step to the next and is never negative
C1_MonotonicDepletion ==
    [][\A p \in 1..Len(pools) : \A st \in DOMAIN pools[p] :
          /\ pools'[p][st].remaining_solar_w <= pools[p][st].remaining_solar_w
          /\ pools'[p][st].remaining_solar_w >= 0]_vars

\* C2: at every point of a pass every slot of a pool satisfies
\* 0 <= remaining_solar_w <= solar_surplus_w
C2_RemainingWithinSurplus ==
    \A p \in 1..Len(pools) : \A st \in DOMAIN pools[p] :
        /\ 0 <= pools[p][st].remaining_solar_w
        /\ pools[p][st].remaining_solar_w <= pools[p][st].solar_surplus_w

\* C3: the reservation integrator, the switch scheduler, the thermostat
\* engine and the manual ranking of one pass all work on the same pool
\* instance, whichever of them run
C3_OneSharedPool ==
    \A a \in Consumers, b \in Consumers :
        (pool_of[a] # 0 /\ pool_of[b] # 0) => pool_of[a] = pool_of[b]

\* the switch results exist once phase 2 has ended
SwitchDone == pc \in {"thermostats", "decide", "manual", "done"} /\ pool_of.switch # 0
SwitchPool == pools[pool_of.switch]
NeedsRuntime == {i \in 1..Len(devices) : RemainingRuntimeMin(devices[i]) > 0}
EligibleOf(d) == Range(GetEligibleSlots(SwitchPool, now, d.deadline))
AssignedOf(d) == Range(results[d.subentry_id].scheduled_slots)
ZeroSolar == \A st \in DOMAIN SwitchPool : SwitchPool[st].solar_surplus_w = 0

\* C4: a switch device that needs k slots and has more than k eligible
\* slots, with zero solar surplus in every slot, is assigned exactly k
\* eligible slots, none of them pricier than an eligible slot left out
C4_CheapestFirst ==
    SwitchDone =>
        \A i \in NeedsRuntime :
            LET d == devices[i]
                k == RemainingSlotsNeeded(d)
            IN (Cardinality(EligibleOf(d)) > k /\ ZeroSolar) =>
                   /\ Cardinality(AssignedOf(d)) = k
                   /\ AssignedOf(d) \subseteq EligibleOf(d)
                   /\ \A a \in AssignedOf(d), u \in EligibleOf(d) \ AssignedOf(d) :
                          SwitchPool[a].price <= SwitchPool[u].price

\* a device with a real choice took the strictly cheaper slots
C4_Witness ==
    /\ SwitchDone
    /\ ZeroSolar
    /\ \E i \in NeedsRuntime :
          LET d == devices[i]
          IN /\ Cardinality(EligibleOf(d)) > RemainingSlotsNeeded(d)
             /\ RemainingSlotsNeeded(d) = 2
             /\ Cardinality(AssignedOf(d)) = 2
             /\ \E u \in EligibleOf(d) \ AssignedOf(d) :
                   \A a \in AssignedOf(d) : SwitchPool[a].price < SwitchPool[u].price

\* C5 as stated: a switch device whose eligible slots are exactly as many
\* as the slots it still needs is assigned every eligible slot and its
\* reason is deadline pressure
C5_DeadlineForced ==
    SwitchDone =>
        \A i \in NeedsRuntime :
            LET d == devices[i]
            IN Cardinality(EligibleOf(d)) = RemainingSlotsNeeded(d) =>
                   /\ AssignedOf(d) = EligibleOf(d)
                   /\ results[d.subentry_id].reason = "Forced on: deadline pressure"

\* C5 amended: such a device is assigned every eligible slot; its reason is
\* deadline pressure when the current slot is one of them, and otherwise it
\* is reported off, waiting for a cheaper slot
C5_DeadlineForcedWhenCurrent ==
    SwitchDone =>
        \A i \in NeedsRuntime :
            LET d == devices[i]
                r == results[d.subentry_id]
            IN Cardinality(EligibleOf(d)) = RemainingSlotsNeeded(d) =>
                   /\ AssignedOf(d) = EligibleOf(d)
                   /\ IF CurrentSlotStart \in EligibleOf(d)
                      THEN r.should_be_on /\ r.reason = "Forced on: deadline pressure"
                      ELSE ~r.should_be_on /\ r.reason = "Waiting for cheaper slot"

\* a device forced into both of its eligible slots runs now under deadline
\* pressure although a slot past its deadline is cheaper
C5_Witness ==
    /\ SwitchDone
    /\ \E i \in NeedsRuntime :
          LET d == devices[i]
              r == results[d.subentry_id]
          IN /\ RemainingSlotsNeeded(d) = 2
             /\ Cardinality(EligibleOf(d)) = 2
             /\ AssignedOf(d) = EligibleOf(d)
             /\ CurrentSlotStart \in EligibleOf(d)
             /\ r.reason = "Forced on: deadline pressure"
             /\ \E st \in DOMAIN SwitchPool \ EligibleOf(d) :
                   SwitchPool[st].price < SwitchPool[CurrentSlotStart].price

\* pairs << i, j >> of devices with runtime to do and the same wattage, the
\* first with the lower priority value
SamePowerPairs ==
    {pr \in NeedsRuntime \X NeedsRuntime :
        /\ devices[pr[1]].peak_usage_w = devices[pr[2]].peak_usage_w
        /\ devices[pr[1]].priority < devices[pr[2]].priority}
\* the slot's solar surplus covers one device of wattage w and not two
CoversOne(st, w) ==
    /\ w <= SwitchPool[st].solar_surplus_w
    /\ SwitchPool[st].solar_surplus_w < 2 * w
LogOf(d, st) == {n \in 1..Len(assign_log) :
                    assign_log[n].device = d.subentry_id /\ assign_log[n].slot = st}

\* C6 as stated: of two switch devices of the same wattage W that can both
\* use a slot whose surplus covers exactly one of them, the one with the
\* lower priority value is assigned the slot as fully solar-covered and the
\* other one's assignment of it is not solar-covered
C6_PriorityGetsSolar ==
    SwitchDone =>
        \A pr \in SamePowerPairs :
            LET p == devices[pr[1]]
                q == devices[pr[2]]
            IN \A st \in EligibleOf(p) \cap EligibleOf(q) :
                   CoversOne(st, p.peak_usage_w) =>
                       /\ \E a \in LogOf(p, st) : assign_log[a].covered
                       /\ \A b \in LogOf(q, st) : ~assign_log[b].covered

\* C6 amended: when both devices are assigned such a slot, and the other
\* device is not the only one under deadline pressure, the device with the
\* lower priority value is assigned it first and as fully solar-covered;
\* the other one's assignment is then not solar-covered, provided the first
\* deduction was the full W (the slot is not the current one with a lower
\* live reading in use)
C6_PriorityFirstOnSharedSlot ==
    \A pr \in SamePowerPairs :
        LET p == devices[pr[1]]
            q == devices[pr[2]]
        IN \A st \in SlotStarts : \A a \in LogOf(p, st), b \in LogOf(q, st) :
               (/\ CoversOne(st, p.peak_usage_w)
                /\ ~(assign_log[b].phase = 1 /\ assign_log[a].phase = 2)) =>
                   /\ a < b
                   /\ assign_log[a].covered
                   /\ (st # CurrentSlotStart \/ EffectiveUsageW(p) = p.peak_usage_w)
                          => ~assign_log[b].covered

\* both devices took the slot in phase 2: the first one free, the other one
\* at grid cost
C6_Witness ==
    \E pr \in SamePowerPairs :
        LET p == devices[pr[1]]
            q == devices[pr[2]]
        IN \E st \in SlotStarts : \E a \in LogOf(p, st), b \in LogOf(q, st) :
               /\ CoversOne(st, p.peak_usage_w)
               /\ assign_log[a].phase = 2 /\ assign_log[b].phase = 2
               /\ a < b
               /\ assign_log[a].covered /\ ~assign_log[b].covered
               /\ Cardinality(EligibleOf(q)) > 1

\* the thermostats whose decision of this pass has been made
Decided == {i \in 1..Len(thermostats) : thermostats[i].subentry_id \in DOMAIN results}
Heating == {i \in Decided : thermostats[i].hvac_mode = "heat"
                            /\ thermostats[i].current_temperature # None}
TempOf(i) == thermostats[i].current_temperature[1]
RunsNow(i) == results[thermostats[i].subentry_id].should_be_on

\* C7 as stated: a thermostat in heat mode with a reading runs when the
\* reading equals the lower bound and does not run when it equals the upper
\* bound, for every band of width >= 0
C7_BoundsForce ==
    \A i \in Heating :
        /\ TempOf(i) = thermostats[i].target_temp_low => RunsNow(i)
        /\ TempOf(i) = thermostats[i].target_temp_high => ~RunsNow(i)

\* C7 amended: it runs when the reading equals the lower bound, also when
\* the two bounds coincide; it does not run when the reading equals an upper
\* bound above the lower one
C7_BoundsForceLowerFirst ==
    \A i \in Heating :
        /\ TempOf(i) = thermostats[i].target_temp_low => RunsNow(i)
        /\ (/\ TempOf(i) = thermostats[i].target_temp_high
            /\ thermostats[i].target_temp_low < thermostats[i].target_temp_high)
               => ~RunsNow(i)

\* both halves happen in one pass list: a thermostat that was off is forced
\* on at its lower bound in a slot at the dearest quote with no solar left
C7_Witness ==
    \E i \in Heating :
        /\ TempOf(i) = thermostats[i].target_temp_low
        /\ thermostats[i].target_temp_low < thermostats[i].target_temp_high
        /\ ~thermostats[i].is_on
        /\ RunsNow(i)
        /\ CurrentSlotStart \in DOMAIN pools[pool_of.thermostat]
        /\ pools[pool_of.thermostat][CurrentSlotStart].solar_surplus_w = 0
        /\ \A st \in DOMAIN pools[pool_of.thermostat] :
               pools[pool_of.thermostat][st].price
                   <= pools[pool_of.thermostat][CurrentSlotStart].price
        /\ \E st \in DOMAIN pools[pool_of.thermostat] :
               pools[pool_of.thermostat][st].price
                   < pools[pool_of.thermostat][CurrentSlotStart].price

\* C8: the decision of a thermostat whose hvac_mode is off is not to run,
\* and it leaves every pool as it was
C8_OffNeverRuns ==
    [][(pc = "decide" /\ SortByPriority(thermostats)[idx].hvac_mode = "off") =>
          /\ ~results'[SortByPriority(thermostats)[idx].subentry_id].should_be_on
          /\ pools' = pools]_vars

\* a thermostat switched off stays off at its lower bound, although it was
\* running and the current slot has solar left
C8_Witness ==
    \E i \in Decided :
        /\ thermostats[i].hvac_mode = "off"
        /\ thermostats[i].current_temperature = Some(thermostats[i].target_temp_low)
        /\ thermostats[i].is_on
        /\ ~RunsNow(i)
        /\ CurrentSlotStart \in DOMAIN pools[pool_of.thermostat]
        /\ pools[pool_of.thermostat][CurrentSlotStart].remaining_solar_w
               >= thermostats[i].peak_usage_w

\* C9: a thermostat in heat mode without a temperature reading runs exactly
\* when it is reported on
C9_NoReadingHolds ==
    \A i \in Decided :
        (thermostats[i].hvac_mode = "heat" /\ thermostats[i].current_temperature = None)
            => (RunsNow(i) <=> thermostats[i].is_on)

\* without a reading a thermostat that was on keeps running in a slot at the
\* dearest quote, and one that was off stays off with solar to spare
C9_Witness ==
    \E i \in Decided :
        /\ thermostats[i].hvac_mode = "heat"
        /\ thermostats[i].current_temperature = None
        /\ CurrentSlotStart \in DOMAIN pools[pool_of.thermostat]
        /\ \/ /\ thermostats[i].is_on /\ RunsNow(i)
              /\ pools[pool_of.thermostat][CurrentSlotStart].solar_surplus_w = 0
              /\ \E st \in DOMAIN pools[pool_of.thermostat] :
                     pools[pool_of.thermostat][st].price
                         < pools[pool_of.thermostat][CurrentSlotStart].price
           \/ /\ ~thermostats[i].is_on /\ ~RunsNow(i)
              /\ pools[pool_of.thermostat][CurrentSlotStart].remaining_solar_w
                     >= thermostats[i].peak_usage_w

\* C10: with a minimum cycle time, no command opposite to the last
\* state-changing command is issued before the minimum cycle time has passed
C10_NoEarlyFlip == min_cycle_time > 0 => ~early_flip

\* C11: once a pass has raised, the exception has not reached the caller and
\* the published schedule results are exactly what the last pass that
\* completed returned
C11_FailureKeepsLastResults ==
    pc = "failed" => (~propagated /\ schedule_results = last_completed)

\* a pass raised after an earlier one had published results, with results of
\* its own computed that differ from the published ones
C11_Witness ==
    /\ pc = "failed"
    /\ last_completed # << >>
    /\ results # << >>
    /\ results # last_completed

\* ceil(cycle_duration_min / 15) of a request
SlotsNeeded(request) ==
    (request.cycle_duration_min + SLOT_DURATION_MIN - 1) \div SLOT_DURATION_MIN
Ranked == pc \in {"done", "ranked_again"} /\ pool_of.manual # 0
ManualPool == pools[pool_of.manual]
RequestOf(id) ==
    manual_requests[CHOOSE i \in 1..Len(manual_requests) :
                       manual_requests[i].subentry_id = id]
WindowsOf(id) == manual_results[id].windows
\* the slot starts a window covers, from its start to its end in 15-minute steps
WindowStarts(w) ==
    {st \in w.start_time..(w.end_time - 1) :
        (st - w.start_time) % SLOT_DURATION_MIN = 0}

\* C12: every window of a ranking is as long as the cycle needs and every
\* 15-minute step from its start to its end is a slot of the pool, so no
\* window spans a slot that is missing from the pool
C12_WindowsContiguous ==
    Ranked =>
        \A id \in DOMAIN manual_results :
            \A n \in 1..Len(WindowsOf(id)) :
                LET w == WindowsOf(id)[n] IN
                /\ w.end_time - w.start_time = SlotsNeeded(RequestOf(id)) * SLOT_DURATION_MIN
                /\ WindowStarts(w) \subseteq DOMAIN ManualPool

\* a ranking without delay offsets returned a window of several slots next to
\* a gap: the slot after the window's last is not in the pool while later
\* slots are
C12_Witness ==
    /\ Ranked
    /\ \E id \in DOMAIN manual_results :
          /\ RequestOf(id).delay_intervals_h = None
          /\ SlotsNeeded(RequestOf(id)) >= 2
          /\ \E n \in 1..Len(WindowsOf(id)) :
                LET w == WindowsOf(id)[n] IN
                /\ w.end_time \notin DOMAIN ManualPool
                /\ \E st \in DOMAIN ManualPool :
                      st > w.end_time /\ st < ManualCutoff(now)

C14_RankingLeavesPool ==
    [][/\ (pc = "manual" /\ manual_requests # << >>) =>
            pools'[shared_slot_info'] =
                (IF shared_slot_info # 0 THEN pools[shared_slot_info] ELSE FreshPool)
       /\ pc = "done" => pools' = pools]_vars

\* a ranking scored windows on slots that have solar left, on a pool a
\* reservation had already drawn from
C14_Witness ==
    /\ Ranked
    /\ pool_of.reservation = pool_of.manual
    /\ ManualPool # FreshPool
    /\ \E id \in DOMAIN manual_results :
          \E n \in 1..Len(WindowsOf(id)) :
              /\ WindowsOf(id)[n].solar_fraction[1] > 0
              /\ ManualPool[WindowsOf(id)[n].start_time].remaining_solar_w > 0

\* C15: the windows of a ranking are in ascending order of total cost, windows
\* of equal cost in descending order of solar fraction, and the recommendation
\* is the first window of the list whenever the list is not empty
C15_SortedAndRecommended ==
    Ranked =>
        \A id \in DOMAIN manual_results :
            LET ws == WindowsOf(id) IN
            /\ \A n \in 1..(Len(ws) - 1) :
                  \/ FracLess(ws[n].total_cost, ws[n + 1].total_cost)
                  \/ (FracEq(ws[n].total_cost, ws[n + 1].total_cost)
                      /\ FracLeq(ws[n + 1].solar_fraction, ws[n].solar_fraction))
            /\ ws # << >> =>
                  /\ manual_results[id].recommended_start = Some(ws[1].start_time)
                  /\ manual_results[id].recommended_end = Some(ws[1].end_time)

\* a ranking holds two neighbours of equal cost where the one with the larger
\* solar fraction starts later, and a cheaper window that starts after a
\* dearer one
C15_Witness ==
    /\ Ranked
    /\ \E id \in DOMAIN manual_results :
          LET ws == WindowsOf(id) IN
          /\ \E n \in 1..(Len(ws) - 1) :
                /\ FracEq(ws[n].total_cost, ws[n + 1].total_cost)
                /\ FracLess(ws[n + 1].solar_fraction, ws[n].solar_fraction)
                /\ ws[n].start_time > ws[n + 1].start_time
          /\ \E n \in 1..(Len(ws) - 1) :
                /\ FracLess(ws[n].total_cost, ws[n + 1].total_cost)
                /\ ws[n].start_time > ws[n + 1].start_time
          /\ manual_results[id].recommended_start = Some(ws[1].start_time)

\* the delay offsets of a request, and the moment an offset points at
DelaysOf(id) ==
    IF RequestOf(id).delay_intervals_h = None THEN << >>
    ELSE RequestOf(id).delay_intervals_h[1]
TargetStart(h) == now + HoursToMinutes(h)
BoundaryBefore(t) == t - (t % SLOT_DURATION_MIN)
NearestBoundary(t) ==
    IF 2 * (t % SLOT_DURATION_MIN) > SLOT_DURATION_MIN
    THEN BoundaryBefore(t) + SLOT_DURATION_MIN
    ELSE BoundaryBefore(t)
LastPoolStart == CHOOSE st \in DOMAIN ManualPool : \A x \in DOMAIN ManualPool : x <= st
\* the windows of a ranking that carry the offset h
WindowsFrom(id, h) == {n \in 1..Len(WindowsOf(id)) : WindowsOf(id)[n].delay_hours = Some(h)}
\* every window comes from an offset of the request, an offset gives at most
\* as many windows as the request lists it, each window starts at the
\* boundary Snap(now + offset), and an offset whose last slot would start
\* after the last priced slot gives none
DelayWindowsSnappedBy(Snap(_)) ==
    Ranked =>
        \A id \in DOMAIN manual_results :
            DelaysOf(id) # << >> =>
                /\ \A n \in 1..Len(WindowsOf(id)) :
                      \E h \in Range(DelaysOf(id)) :
                          /\ WindowsOf(id)[n].delay_hours = Some(h)
                          /\ WindowsOf(id)[n].start_time = Snap(TargetStart(h))
                /\ \A h \in Range(DelaysOf(id)) :
                      /\ Cardinality(WindowsFrom(id, h))
                             <= Cardinality({i \in 1..Len(DelaysOf(id)) : DelaysOf(id)[i] = h})
                      /\ (DOMAIN ManualPool # {}
                          /\ Snap(TargetStart(h))
                                + (SlotsNeeded(RequestOf(id)) - 1) * SLOT_DURATION_MIN
                                    > LastPoolStart)
                             => WindowsFrom(id, h) = {}

\* C16: with delay offsets a ranking holds at most one window per offset and
\* no window that comes from none; each window starts at now + offset snapped
\* to the nearest slot boundary; an offset whose window would run past the
\* price horizon contributes no window
C16_DelayWindowsNearest == DelayWindowsSnappedBy(NearestBoundary)

\* C16, amended: as above, with each window starting at now + offset snapped
\* down to the slot boundary at or before it
C16_DelayWindowsSnappedDown == DelayWindowsSnappedBy(BoundaryBefore)

\* a ranking with delay offsets holds a window whose offset points past the
\* middle of a slot, and dropped another offset whose window would run past
\* the last priced slot
C16_Witness ==
    /\ Ranked
    /\ \E id \in DOMAIN manual_results :
          /\ \E h \in Range(DelaysOf(id)) :
                /\ WindowsFrom(id, h) # {}
                /\ NearestBoundary(TargetStart(h)) # BoundaryBefore(TargetStart(h))
          /\ \E h \in Range(DelaysOf(id)) :
                /\ WindowsFrom(id, h) = {}
                /\ BoundaryBefore(TargetStart(h))
                      + (SlotsNeeded(RequestOf(id)) - 1) * SLOT_DURATION_MIN > LastPoolStart

\* the next 06:00 after 'now': today's while now is before 06:00, tomorrow's
\* from 06:00 on
NextSixAm ==
    IF now % MinutesPerDay < 6 * MINUTES_PER_HOUR
    THEN now - (now % MinutesPerDay) + 6 * MINUTES_PER_HOUR
    ELSE now - (now % MinutesPerDay) + MinutesPerDay + 6 * MINUTES_PER_HOUR

\* C17: every slot of every window of a ranking starts before the next 06:00
\* boundary - today's 06:00 while now is before 06:00, tomorrow's otherwise,
\* now exactly 06:00 included - also when later slots have prices
C17_WindowsBeforeSixAm ==
    Ranked =>
        \A id \in DOMAIN manual_results :
            \A n \in 1..Len(WindowsOf(id)) :
                \A st \in WindowStarts(WindowsOf(id)[n]) : st < NextSixAm

\* at exactly 06:00 a ranking holds a window on the last slot before
\* tomorrow's 06:00 and none on the priced slot that starts at that boundary
C17_Witness ==
    /\ Ranked
    /\ now = 6 * MINUTES_PER_HOUR
    /\ NextSixAm \in DOMAIN ManualPool
    /\ \E id \in DOMAIN manual_results :
          \E n \in 1..Len(WindowsOf(id)) :
              WindowsOf(id)[n].end_time = NextSixAm

\* the reservations whose device is among the manual requests
Reserving ==
    {i \in 1..Len(reservations) :
        \E j \in 1..Len(manual_requests) :
            manual_requests[j].subentry_id = reservations[i].subentry_id}
\* the reservations whose window a slot lies fully inside
Inside(st) ==
    {i \in Reserving : /\ st >= reservations[i].start
                       /\ st + SLOT_DURATION_MIN <= reservations[i].end}
ReservedPeak(i) == RequestOf(reservations[i].subentry_id).peak_usage_w
\* right after the reservations were applied to the pool just built, the
\* slots fully inside the one reservation window they lie in have lost
\* Deduct(remaining, peak) and the remaining solar of every other slot is as
\* it was built
ReservationsDeductBy(Deduct(_, _)) ==
    (pc = "switch" /\ pool_of.reservation # 0) =>
        \A st \in DOMAIN FreshPool :
            LET before == FreshPool[st].remaining_solar_w
                after == pools[pool_of.reservation][st].remaining_solar_w
            IN /\ Inside(st) = {} => after = before
               /\ \A i \in Inside(st) :
                     Cardinality(Inside(st)) = 1 =>
                         after = Deduct(before, ReservedPeak(i))
PeakOff(remaining, peak) == remaining - peak
PeakOffNotBelowZero(remaining, peak) ==
    IF remaining - peak < 0 THEN 0 ELSE remaining - peak

\* C18: applying the reservations reduces remaining_solar_w by the reserving
\* device's peak wattage in exactly the slots fully inside its reservation
\* window and leaves the remaining solar of every other slot unchanged
C18_ReservationDeductsPeak == ReservationsDeductBy(PeakOff)

\* C18, amended: the reduction is by the peak wattage but never below zero
C18_ReservationDeductsPeakClamped == ReservationsDeductBy(PeakOffNotBelowZero)

\* a reservation was applied to a pool with a slot fully inside its window
\* that had less solar left than the device's peak, and a slot with solar
\* that the window only overlaps
C18_Witness ==
    /\ pc = "switch"
    /\ pool_of.reservation # 0
    /\ \E st \in DOMAIN FreshPool :
          \E i \in Inside(st) :
              /\ FreshPool[st].remaining_solar_w > 0
              /\ FreshPool[st].remaining_solar_w < ReservedPeak(i)
              /\ pools[pool_of.reservation][st].remaining_solar_w = 0
    /\ \E st \in DOMAIN FreshPool :
          /\ Inside(st) = {}
          /\ \E i \in Reserving : st >= reservations[i].start /\ st < reservations[i].end
          /\ FreshPool[st].remaining_solar_w > 0
          /\ pools[pool_of.reservation][st].remaining_solar_w
                 = FreshPool[st].remaining_solar_w

\* a device has no eligible slot: its deadline has passed at 'now', or no
\* priced slot that has not ended starts before the deadline
NoEligibleSlot(d) ==
    \/ d.deadline <= now
    \/ \A st \in DOMAIN price_slots :
           ~(st + SLOT_DURATION_MIN > now /\ st < d.deadline)

\* C19: a switch device that still needs runtime and has no eligible slot -
\* price data is missing or its deadline has passed at 'now' - gets a result
\* with no assigned slot and should_be_on false
C19_NoEligibleNeverScheduled ==
    SwitchDone =>
        \A i \in NeedsRuntime :
            NoEligibleSlot(devices[i]) =>
                /\ results[devices[i].subentry_id].scheduled_slots = << >>
                /\ ~results[devices[i].subentry_id].should_be_on

\* a device that needs runtime was passed over because its deadline lies
\* behind 'now' inside the running slot, which has a price, while the other
\* device of the pass runs in that slot
C19_Witness ==
    /\ SwitchDone
    /\ CurrentSlotStart \in DOMAIN price_slots
    /\ \E i \in NeedsRuntime :
          /\ devices[i].deadline > CurrentSlotStart
          /\ devices[i].deadline <= now
          /\ results[devices[i].subentry_id].scheduled_slots = << >>
    /\ \E j \in NeedsRuntime : results[devices[j].subentry_id].should_be_on

\* the devices whose daily runtime is met
RuntimeMet == {i \in 1..Len(devices) : devices[i].daily_runtime_min
                                           - devices[i].runtime_today_min <= 0}

\* C20: from the head of the switch scheduler on, a device whose remaining
\* runtime is <= 0 has the result off / remaining runtime 0 / no slots /
\* "Daily runtime already met"; it is no active device, has no scheduling
\* state and no assignment, and every slot whose remaining solar differs
\* from the pool as built was assigned to another device
C20_RuntimeMetShortCircuit ==
    (pool_of.switch # 0) =>
        \A i \in RuntimeMet :
            LET id == devices[i].subentry_id IN
            /\ id \in DOMAIN results
            /\ ~results[id].should_be_on
            /\ results[id].remaining_runtime_min = 0
            /\ results[id].scheduled_slots = << >>
            /\ results[id].reason = "Daily runtime already met"
            /\ id \notin DOMAIN states
            /\ \A k \in 1..Len(active_devices) : active_devices[k].subentry_id # id
            /\ \A n \in 1..Len(assign_log) : assign_log[n].device # id
            /\ \A st \in DOMAIN SwitchPool :
                  SwitchPool[st].remaining_solar_w # FreshPool[st].remaining_solar_w =>
                      \E n \in 1..Len(assign_log) :
                          assign_log[n].slot = st /\ assign_log[n].device # id

\* the switch scheduler has finished with a device whose runtime is met next
\* to one that was assigned a slot and took solar from it
C20_Witness ==
    /\ SwitchDone
    /\ RuntimeMet # {}
    /\ \E st \in DOMAIN SwitchPool :
          SwitchPool[st].remaining_solar_w < FreshPool[st].remaining_solar_w
    /\ \E j \in NeedsRuntime : results[devices[j].subentry_id].should_be_on

\* the device the latest reservation request was made for
Requested == reserve_log'[Len(reserve_log')].subentry_id
NoRecommendation(id) ==
    \/ id \notin DOMAIN manual_results
    \/ manual_results[id].recommended_start = None
    \/ manual_results[id].recommended_end = None

\* C21: a reservation request for a manual device without a ranking or
\* without a recommended window changes neither the reservation map nor the
\* stored reservations, starts no pass and raises nothing
C21_ReserveWithoutWindowNoOp ==
    [][(Len(reserve_log') > Len(reserve_log) /\ NoRecommendation(Requested)) =>
          /\ manual_reservations' = manual_reservations
          /\ stored_reservations' = stored_reservations
          /\ passes' = passes
          /\ pc' = pc
          /\ ~reserve_log'[Len(reserve_log')].raised]_vars

\* a request was turned down while a reservation of another device is held
\* and stored
C21_Witness ==
    /\ reserve_log # << >>
    /\ ~reserve_log[Len(reserve_log)].reserved
    /\ manual_reservations # << >>
    /\ stored_reservations = manual_reservations
    /\ reserve_log[Len(reserve_log)].subentry_id \notin DOMAIN manual_reservations

\* the pool of the pass, and the pool the same inputs give without a live
\* reading
BuiltPool == pools[1]
ForecastPool == BuildSlotInfo(price_slots, solar_forecast, home_consumption_w, now, None)
LiveAbove ==
    /\ live_solar_surplus_w # None
    /\ CurrentSlotStart \in DOMAIN ForecastPool
    /\ live_solar_surplus_w[1] > ForecastPool[CurrentSlotStart].solar_surplus_w
\* no slot has less surplus with the live reading than without it, and a
\* reading at or below the forecast surplus of the current slot changes nothing
NeverDowngrades ==
    /\ DOMAIN BuiltPool = DOMAIN ForecastPool
    /\ \A st \in DOMAIN BuiltPool :
          BuiltPool[st].solar_surplus_w >= ForecastPool[st].solar_surplus_w
    /\ (/\ live_solar_surplus_w # None
        /\ CurrentSlotStart \in DOMAIN ForecastPool
        /\ live_solar_surplus_w[1] <= ForecastPool[CurrentSlotStart].solar_surplus_w)
           => BuiltPool = ForecastPool
\* the surplus of a future slot is its forecast surplus times live / forecast
ScaledByRatio(st) ==
    BuiltPool[st].solar_surplus_w * ForecastPool[CurrentSlotStart].solar_surplus_w
        = ForecastPool[st].solar_surplus_w * live_solar_surplus_w[1]

\* C22: a live reading never lowers the surplus of a slot; at or below the
\* current slot's forecast surplus it leaves the pool identical; above it the
\* current slot's surplus becomes the live value and every future slot's
\* surplus is scaled by the live/forecast ratio
C22_LiveNeverDowngrades ==
    pools # << >> =>
        /\ NeverDowngrades
        /\ LiveAbove =>
              /\ BuiltPool[CurrentSlotStart].solar_surplus_w = live_solar_surplus_w[1]
              /\ \A st \in DOMAIN BuiltPool : st > CurrentSlotStart => ScaledByRatio(st)

\* C22, amended: the future slots are scaled by the ratio when the current
\* slot's forecast surplus is positive, and keep their forecast surplus when
\* it is zero
C22_LiveScalesPositiveForecast ==
    pools # << >> =>
        /\ NeverDowngrades
        /\ LiveAbove =>
              /\ BuiltPool[CurrentSlotStart].solar_surplus_w = live_solar_surplus_w[1]
              /\ \A st \in DOMAIN BuiltPool :
                    st > CurrentSlotStart =>
                        IF ForecastPool[CurrentSlotStart].solar_surplus_w > 0
                        THEN ScaledByRatio(st)
                        ELSE BuiltPool[st].solar_surplus_w
                                 = ForecastPool[st].solar_surplus_w

\* a pool was built with a live reading above a positive forecast surplus of
\* the current slot, with a future slot that has surplus to scale
C22_Witness ==
    /\ pools # << >>
    /\ LiveAbove
    /\ ForecastPool[CurrentSlotStart].solar_surplus_w > 0
    /\ \E st \in DOMAIN BuiltPool :
          /\ st > CurrentSlotStart
          /\ BuiltPool[st].solar_surplus_w > ForecastPool[st].solar_surplus_w

\* the stop the step tells the tracker of, and what the session it ends
\* amounts to
StopStep == tracker_event'.n > tracker_event.n /\ tracker_event'.kind = "stopped"
InSession == tracker.session_start_time # None
SessionMinutes == tracker_event'.at - tracker.session_start_time[1]
SessionRise == tracker_event'.temp - tracker.session_start_temp[1]
Observation == FracNorm(<< tracker_event'.power * SessionMinutes, 6 * SessionRise >>)
Previous == tracker.wh_per_degree[1]
\* 0.3 * observation + 0.7 * previous = (3 * observation + 7 * previous) / 10
Averaged ==
    FracNorm(<< 3 * Observation[1] * Previous[2] + 7 * Previous[1] * Observation[2],
                10 * Observation[2] * Previous[2] >>)
Qualifies ==
    /\ InSession
    /\ SessionMinutes >= 5
    /\ SessionRise >= 2
    /\ tracker_event'.power > 0

\* C23: a heater-stopped event changes what the tracker has learned exactly
\* when a session is in progress that lasted at least 5 minutes, raised the
\* temperature by at least 0.2 degrees and had positive average power; then
\* sample_count grows by 1 and wh_per_degree becomes the observation (first
\* sample) or 0.3 * observation + 0.7 * previous; otherwise both are
\* unchanged; after the stop no session is in progress
C23_StopLearnsQualifiedSession ==
    [][StopStep =>
          /\ tracker'.session_start_time = None
          /\ tracker'.session_start_temp = None
          /\ IF Qualifies
             THEN /\ tracker'.sample_count = tracker.sample_count + 1
                  /\ tracker'.wh_per_degree # None
                  /\ IF tracker.wh_per_degree = None
                     THEN tracker'.wh_per_degree[1] = Observation
                     ELSE tracker'.wh_per_degree[1] = Averaged
             ELSE /\ tracker'.sample_count = tracker.sample_count
                  /\ tracker'.wh_per_degree = tracker.wh_per_degree
          /\ ~InSession => tracker' = tracker]_vars

\* the tracker has averaged a second session into what it had learned from
\* a first, and is in no session
C23_Witness ==
    /\ tracker_event.kind = "stopped"
    /\ tracker.sample_count = 2
    /\ tracker.wh_per_degree # None
    /\ tracker.wh_per_degree[1] = << 2875, 6 >>
    /\ tracker.session_start_time = None

\* C24: a slot that is in the price cache keeps its prices through every
\* later fetch, whatever the provider returns, and leaves the cache only
\* when the fetch finds it older than the lookback window
C24_CachedPricesImmutable ==
    [][\A st \in DOMAIN cached_slots :
          IF st \in DOMAIN cached_slots'
          THEN cached_slots'[st] = cached_slots[st]
          ELSE st + 60 < fetch_log'.now]_vars

\* the slot of 01:00 is cached with the price it entered with after three
\* fetches, and the slot of 00:00 has been pruned
C24_Witness ==
    /\ fetch_log.n = MaxFetches
    /\ 0 \notin DOMAIN cached_slots
    /\ 60 \in DOMAIN cached_slots
    /\ cached_slots[60].price = 1
    /\ fetch_log.now = 61 + 45

\* C25: whenever the query of a switch's runtime today fails, because the
\* history store is missing or because the query raises, the runtime so far
\* is zero and nothing is raised
C25_QueryFailureIsZero ==
    runtime_query.recorder \in {"missing", "raising"} =>
        /\ ~runtime_query.raised
        /\ runtime_query.minutes = Some(0)

\* without a history store the runtime so far is zero and nothing is raised
C25_MissingRecorderIsZero ==
    runtime_query.recorder = "missing" =>
        /\ ~runtime_query.raised
        /\ runtime_query.minutes = Some(0)

\* a query answered by a store that holds an 'on' period counts its minutes
C25_Witness ==
    /\ runtime_query.recorder = "ok"
    /\ runtime_query.minutes = Some(20)

\* C26: passes are serialized: whatever trigger starts it, a pass begins
\* only when no earlier pass is running and no on/off command is still
\* being applied
C26_PassesSerialized ==
    \A p \in running_passes : p.passes_running = 0 /\ p.commands_open = 0

\* the pairs phase 2 may commit: a device that still needs slots with an
\* eligible slot it has not been assigned, and the cost of each in the pool
\* as it stands
Phase2Pool == pools[shared_slot_info]
Unsatisfied ==
    {i \in 1..Len(active_devices) :
        states[active_devices[i].subentry_id].remaining_needed > 0}
OpenSlots(i) ==
    Range(GetEligibleSlots(Phase2Pool, now, active_devices[i].deadline))
        \ Range(states[active_devices[i].subentry_id].assigned_slots)
Phase2Pairs == UNION {{<< i, st >> : st \in OpenSlots(i)} : i \in Unsatisfied}
PairCost(pr) == CostForDeviceInSlot(Phase2Pool[pr[2]], active_devices[pr[1]].peak_usage_w)
Phase2Commit == pc = "phase2" /\ Len(assign_log') = Len(assign_log) + 1

\* C27: every commit of phase 2 takes a pair of minimal marginal cost in the
\* current pool among all pairs of a device that still needs slots and an
\* unassigned eligible slot of it, and among the pairs of that cost one of
\* the device with the lowest priority value
C27_CommitIsCheapestPair ==
    [][Phase2Commit =>
          LET entry == assign_log'[Len(assign_log')]
              committed == << CHOOSE i \in 1..Len(active_devices) :
                                 active_devices[i].subentry_id = entry.device,
                              entry.slot >>
              cost == PairCost(committed)
              pairs == Phase2Pairs
          IN /\ committed \in pairs
             /\ \A other \in pairs :
                   LET other_cost == PairCost(other)
                   IN /\ FracLeq(cost, other_cost)
                      /\ FracEq(cost, other_cost) =>
                             active_devices[committed[1]].priority
                                 <= active_devices[other[1]].priority]_vars

\* phase 2 has committed a pair of the device with the lower priority value
\* while the other device, which still needs a slot, had an eligible slot at
\* the same cost
C27_Witness ==
    /\ pc = "phase2"
    /\ Len(active_devices) = 2
    /\ active_devices[1].priority < active_devices[2].priority
    /\ Len(assign_log) = 1
    /\ assign_log[1].phase = 2
    /\ assign_log[1].device = active_devices[1].subentry_id
    /\ states[active_devices[2].subentry_id].remaining_needed > 0
    /\ \E st \in Range(GetEligibleSlots(Phase2Pool, now, active_devices[2].deadline)) :
          /\ Phase2Pool[st].solar_surplus_w = 0
          /\ Phase2Pool[assign_log[1].slot].solar_surplus_w = 0
          /\ Phase2Pool[st].price = Phase2Pool[assign_log[1].slot].price

\* the two thermostats of a pass in the order of their priority values, the
\* pool they share and what its current slot held before either was decided
Hi == CHOOSE i \in 1..Len(thermostats) :
          \A j \in 1..Len(thermostats) : thermostats[i].priority <= thermostats[j].priority
Lo == CHOOSE j \in 1..Len(thermostats) : j # Hi
ThermoPool == pools[pool_of.thermostat]
HasCurrent == pool_of.thermostat # 0 /\ CurrentSlotStart \in DOMAIN ThermoPool
SolarAtStart == FreshPool[CurrentSlotStart].remaining_solar_w
InBand(i) ==
    /\ thermostats[i].target_temp_low < TempOf(i)
    /\ TempOf(i) < thermostats[i].target_temp_high
ReasonOf(i) == results[thermostats[i].subentry_id].reason
BySolar(i) == ReasonOf(i) = "Heating: solar surplus available"
CoversOneOfTwo ==
    /\ SolarAtStart >= EffectivePowerW(thermostats[Hi])
    /\ SolarAtStart >= EffectivePowerW(thermostats[Lo])
    /\ SolarAtStart < EffectivePowerW(thermostats[Hi]) + EffectivePowerW(thermostats[Lo])
\* the thermostats are decided in ascending priority value
DecidedInPriorityOrder ==
    \A i \in Decided, j \in (1..Len(thermostats)) \ Decided :
        thermostats[i].priority <= thermostats[j].priority

\* C28 as stated: thermostats are decided in ascending priority value; one
\* that is told to heat has its wattage deducted from the current slot's
\* remaining solar before the next is decided; and when that solar covers
\* exactly one of two thermostats inside their bands only the one with the
\* lower priority value heats for the reason 'solar surplus available'
C28_PrioritySolarFirst ==
    (Len(thermostats) = 2 /\ HasCurrent) =>
        /\ DecidedInPriorityOrder
        /\ (Decided = {Hi} /\ RunsNow(Hi)) =>
               ThermoPool[CurrentSlotStart].remaining_solar_w
                   = Max(0, SolarAtStart - EffectivePowerW(thermostats[Hi]))
        /\ (Decided = {Hi, Lo} /\ InBand(Hi) /\ InBand(Lo) /\ CoversOneOfTwo) =>
               (BySolar(Hi) /\ ~BySolar(Lo))

\* C28 amended: the deduction is the thermostat's measured draw when it
\* reports one and its effective wattage otherwise, and the second
\* thermostat is kept from the solar when what is left after that deduction
\* does not cover it
C28_PrioritySolarFirstByDraw ==
    (Len(thermostats) = 2 /\ HasCurrent) =>
        /\ DecidedInPriorityOrder
        /\ (Decided = {Hi} /\ RunsNow(Hi)) =>
               ThermoPool[CurrentSlotStart].remaining_solar_w
                   = Max(0, SolarAtStart - ThermostatConsumption(thermostats[Hi]))
        /\ (Decided = {Hi, Lo} /\ InBand(Hi) /\ InBand(Lo) /\ CoversOneOfTwo) =>
               /\ BySolar(Hi)
               /\ SolarAtStart - ThermostatConsumption(thermostats[Hi])
                      < EffectivePowerW(thermostats[Lo]) => ~BySolar(Lo)

\* the thermostat listed second was decided first and took the solar that
\* covered either of the two, and the other one does not heat on solar
C28_Witness ==
    /\ Len(thermostats) = 2
    /\ HasCurrent
    /\ Hi = 2
    /\ Decided = {Hi, Lo}
    /\ InBand(Hi) /\ InBand(Lo)
    /\ CoversOneOfTwo
    /\ BySolar(Hi)
    /\ ~BySolar(Lo)
    /\ ThermoPool[CurrentSlotStart].remaining_solar_w < EffectivePowerW(thermostats[Lo])

\* the thermostat the next step decides, as the pool stands for it
Deciding == SortByPriority(thermostats)[idx]
DecidingInBand ==
    /\ Deciding.hvac_mode = "heat"
    /\ Deciding.current_temperature # None
    /\ Deciding.target_temp_low < Deciding.current_temperature[1]
    /\ Deciding.current_temperature[1] < Deciding.target_temp_high
SolarCovers(st) == ThermoPool[st].remaining_solar_w >= EffectivePowerW(Deciding)
CoveredNow == CurrentSlotStart \in DOMAIN ThermoPool /\ SolarCovers(CurrentSlotStart)
LaterStarts == {st \in DOMAIN ThermoPool : st > CurrentSlotStart}
NextThree == {st \in LaterStarts : Cardinality({u \in LaterStarts : u < st}) < 3}
\* urgency = (upper - temperature) / (upper - lower) against 0.6 = 3 / 5
UrgencyBelowThreshold ==
    5 * (Deciding.target_temp_high - Deciding.current_temperature[1])
        < 3 * (Deciding.target_temp_high - Deciding.target_temp_low)
WaitsForSolar == "Coasting: solar surplus expected soon"

\* C29: a thermostat inside its band that the current slot's remaining
\* solar does not cover coasts for the reason 'solar surplus expected soon'
\* when its urgency is below 0.6 and one of the next 3 slots has remaining
\* solar covering its effective wattage; at urgency 0.6 or more it never
\* coasts for that reason
C29_LookAheadCoastsBelowThreshold ==
    [][(pc = "decide" /\ DecidingInBand /\ ~CoveredNow) =>
          /\ (UrgencyBelowThreshold /\ \E st \in NextThree : SolarCovers(st)) =>
                 /\ ~results'[Deciding.subentry_id].should_be_on
                 /\ results'[Deciding.subentry_id].reason = WaitsForSolar
          /\ ~UrgencyBelowThreshold =>
                 results'[Deciding.subentry_id].reason # WaitsForSolar]_vars

\* with no solar left in the current slot and enough in a later one, the
\* thermostat at urgency 0.4 waits for it and the one at urgency 0.75 does
\* not
C29_Witness ==
    /\ Len(thermostats) = 2
    /\ HasCurrent
    /\ Decided = {Hi, Lo}
    /\ TempOf(Hi) = 21
    /\ ReasonOf(Hi) = WaitsForSolar
    /\ ~RunsNow(Hi)
    /\ TempOf(Lo) = 19
    /\ ReasonOf(Lo) # WaitsForSolar
    /\ ThermoPool[CurrentSlotStart].remaining_solar_w = 0
    /\ \E st \in DOMAIN ThermoPool :
          st > CurrentSlotStart /\ ThermoPool[st].remaining_solar_w >= 3

\* the time the thermostat being decided can coast, in minutes as a
\* fraction: (temperature - lower bound) * wh_per_degree / effective watts
CoastMinutes ==
    << (Deciding.current_temperature[1] - Deciding.target_temp_low)
          * Deciding.wh_per_degree[1] * 60,
       EffectivePowerW(Deciding) >>
InCoastWindow(st) == FracLess(<< st - CurrentSlotStart, 1 >>, CoastMinutes)
CheaperInCoastWindow ==
    \E st \in LaterStarts :
        /\ InCoastWindow(st)
        /\ ThermoPool[st].price < ThermoPool[CurrentSlotStart].price
NoSolarRule ==
    /\ ~CoveredNow
    /\ ~(UrgencyBelowThreshold /\ \E st \in NextThree : SolarCovers(st))
CoastsOnHeadroom ==
    /\ ~results'[Deciding.subentry_id].should_be_on
    /\ results'[Deciding.subentry_id].reason
          = "Coasting: thermal headroom, cheaper slot available"

\* C30: a thermostat inside its band with a learned wh_per_degree, to which
\* neither solar rule applies, coasts for the reason 'thermal headroom,
\* cheaper slot available' when its coast time is above 2 hours and a slot
\* cheaper than the current one lies within that coast time
C30_HeadroomCoasts ==
    [][(/\ pc = "decide"
        /\ DecidingInBand
        /\ Deciding.wh_per_degree # None
        /\ CurrentSlotStart \in DOMAIN ThermoPool
        /\ NoSolarRule
        /\ FracLess(<< 120, 1 >>, CoastMinutes)
        /\ CheaperInCoastWindow) => CoastsOnHeadroom]_vars

\* within the look-ahead of the thermostat engine the rule does hold: a
\* cheaper slot among the next THERMOSTAT_LOOKAHEAD_SLOTS slots makes the
\* thermostat coast on its headroom
LookAhead ==
    {st \in LaterStarts :
        Cardinality({u \in LaterStarts : u < st}) < THERMOSTAT_LOOKAHEAD_SLOTS}
HeadroomCoastsInLookAhead ==
    [][(/\ pc = "decide"
        /\ DecidingInBand
        /\ Deciding.wh_per_degree # None
        /\ CurrentSlotStart \in DOMAIN ThermoPool
        /\ NoSolarRule
        /\ FracLess(<< 120, 1 >>, CoastMinutes)
        /\ \E st \in LookAhead :
               ThermoPool[st].price < ThermoPool[CurrentSlotStart].price)
          => CoastsOnHeadroom]_vars

\* C31: a thermostat inside its band with a learned wh_per_degree, to which
\* neither solar rule applies and whose coast time is below half an hour,
\* is told to heat whatever the price data is
C31_LowHeadroomHeats ==
    [][(/\ pc = "decide"
        /\ DecidingInBand
        /\ Deciding.wh_per_degree # None
        /\ NoSolarRule
        /\ FracLess(CoastMinutes, << 30, 1 >>)) =>
          results'[Deciding.subentry_id].should_be_on]_vars

\* with the current slot in the price list the rule holds: the thermostat
\* heats for the reason 'low thermal headroom'
LowHeadroomHeatsInPricedSlot ==
    [][(/\ pc = "decide"
        /\ DecidingInBand
        /\ Deciding.wh_per_degree # None
        /\ NoSolarRule
        /\ CurrentSlotStart \in DOMAIN ThermoPool
        /\ FracLess(CoastMinutes, << 30, 1 >>)) =>
          /\ results'[Deciding.subentry_id].should_be_on
          /\ results'[Deciding.subentry_id].reason = "Heating: low thermal headroom"]_vars

\* the price rule for the thermostat being decided: the rank of the current
\* slot's price among the prices of the slots of the look-ahead (one half
\* when there are none), and the urgency (upper - temperature) / (upper - lower)
UpcomingPrices == [i \in 1..Len(upcoming_slots) |-> upcoming_slots[i].price]
HeadroomDecides ==
    CheckThermalHeadroom(Deciding, UpcomingPrices, upcoming_slots, ThermoPool,
                         CurrentSlotStart) # None
CheaperAhead ==
    {st \in LookAhead : ThermoPool[st].price < ThermoPool[CurrentSlotStart].price}
RankOfCurrent ==
    IF LookAhead = {} THEN << 1, 2 >>
    ELSE << Cardinality(CheaperAhead), Cardinality(LookAhead) >>
UrgencyOfDeciding ==
    << Deciding.target_temp_high - Deciding.current_temperature[1],
       Deciding.target_temp_high - Deciding.target_temp_low >>
PriceRuleDecides ==
    /\ pc = "decide"
    /\ DecidingInBand
    /\ NoSolarRule
    /\ ~HeadroomDecides
    /\ CurrentSlotStart \in DOMAIN ThermoPool
HeatsByRank ==
    results'[Deciding.subentry_id].should_be_on <=> FracLeq(RankOfCurrent, UrgencyOfDeciding)

C33_NoPricesHeatsAboveHalf ==
    price_slots = << >> =>
        \A i \in Heating :
            InBand(i) =>
                (RunsNow(i) <=> 2 * (thermostats[i].target_temp_high - TempOf(i))
                                   > thermostats[i].target_temp_high
                                       - thermostats[i].target_temp_low)

\* without prices the thermostat at urgency one half coasts and the one at
\* urgency three quarters heats, both on the fallback
C33_Witness ==
    /\ price_slots = << >>
    /\ \E i \in Heating, j \in Heating :
          /\ InBand(i) /\ InBand(j)
          /\ TempOf(i) = 20 /\ thermostats[i].target_temp_low = 18
          /\ thermostats[i].target_temp_high = 22
          /\ ~RunsNow(i)
          /\ ReasonOf(i) = "Coasting: no price data, urgency-based fallback"
          /\ TempOf(j) = 19 /\ thermostats[j].target_temp_high = 22
          /\ RunsNow(j)
          /\ ReasonOf(j) = "Heating: no price data, urgency-based fallback"

\* the case of the cost formula the last evaluation falls in; 1.0 is
\* PriceScale price units, and f = remaining / watts
CostSlot == cost_call[1].slot
CostWattage == cost_call[1].watts
CostCovered == CostSlot.remaining_solar_w >= CostWattage
CostPartly == 0 < CostSlot.remaining_solar_w /\ CostSlot.remaining_solar_w < CostWattage
CostIs(num, den) == cost_call[1].cost[2] # 0 /\ FracEq(cost_call[1].cost, << num, den >>)

\* C34: the marginal cost is -export when the remaining solar covers the
\* wattage and export > 0, -1.0 when it covers it and export <= 0,
\* price * (1 - f) - export * f when it covers a part and export > 0,
\* price * (1 - f) when it covers a part and export <= 0, and the price
\* otherwise; it has a value for every input
C34_MarginalCostByCase ==
    cost_call # << >> =>
        IF CostCovered /\ CostSlot.energy_price > 0
        THEN CostIs(0 - CostSlot.energy_price, 1)
        ELSE IF CostCovered
        THEN CostIs(0 - PriceScale, 1)
        ELSE IF CostPartly /\ CostSlot.energy_price > 0
        THEN CostIs(CostSlot.price * (CostWattage - CostSlot.remaining_solar_w)
                        - CostSlot.energy_price * CostSlot.remaining_solar_w, CostWattage)
        ELSE IF CostPartly
        THEN CostIs(CostSlot.price * (CostWattage - CostSlot.remaining_solar_w),
                    CostWattage)
        ELSE CostIs(CostSlot.price, 1)

\* a device of 3 W in a slot at price 3 with 1 W of solar left and export
\* price 2 costs 3 * 2/3 - 2 * 1/3 = 4/3
C34_Witness ==
    /\ cost_call # << >>
    /\ CostSlot = [price |-> 3, energy_price |-> 2, remaining_solar_w |-> 1]
    /\ CostWattage = 3
    /\ FracEq(cost_call[1].cost, << 4, 3 >>)

\* the solar a switch device takes from a slot it is assigned, as the claim
\* states it
DeductedFor(d, st) ==
    IF /\ st = CurrentSlotStart
       /\ d.is_on
       /\ d.use_actual_power
       /\ d.actual_usage_w # None
       /\ d.actual_usage_w[1] >= 0
    THEN d.actual_usage_w[1]
    ELSE d.peak_usage_w
\* the slots a step of phase 1 or phase 2 assigns to device d
NewlyAssigned(d) ==
    IF pc \in {"phase1", "phase2"} /\ d.subentry_id \in DOMAIN states
    THEN Range(states'[d.subentry_id].assigned_slots)
             \ Range(states[d.subentry_id].assigned_slots)
    ELSE {}

\* C35: when a slot is assigned to a switch device, in phase 1 or in phase
\* 2, the slot's remaining solar goes down (not below zero) by the device's
\* live draw if the slot is the current one and the device is on, uses
\* actual power and has a reading >= 0, and by its peak wattage otherwise
C35_DeductsLiveDrawOrPeak ==
    [][\A d \in Range(active_devices) : \A st \in NewlyAssigned(d) :
           pools'[shared_slot_info][st].remaining_solar_w =
               Max(0, pools[shared_slot_info][st].remaining_solar_w - DeductedFor(d, st))]_vars

\* a running device with actual-power accounting and a reading of 1 W was
\* assigned the current slot, which had 3 W of solar left and keeps 2 W, and
\* a later slot, which keeps 1 W
C35_Witness ==
    /\ pc = "thermostats"
    /\ Len(devices) = 1
    /\ devices[1].is_on /\ devices[1].use_actual_power
    /\ devices[1].actual_usage_w = Some(1)
    /\ CurrentSlotStart \in AssignedOf(devices[1])
    /\ SwitchPool[CurrentSlotStart].solar_surplus_w = 3
    /\ SwitchPool[CurrentSlotStart].remaining_solar_w = 2
    /\ \E st \in AssignedOf(devices[1]) :
          /\ st # CurrentSlotStart
          /\ SwitchPool[st].solar_surplus_w = 3
          /\ SwitchPool[st].remaining_solar_w = 1

\* C36: compute_schedules gives every device the same result (assigned
\* slots, should-run-now and reason) whatever the order of the device list
C36_OrderIndependent ==
    (pc = "thermostats" /\ order_results # << >>) => results = order_results[1]

\* the same when the devices have different priorities
OrderIndependentOnDistinctPriorities ==
    (/\ pc = "thermostats"
     /\ order_results # << >>
     /\ \A i, j \in 1..Len(devices) : i # j => devices[i].priority # devices[j].priority)
        => results = order_results[1]

\* the waits of the retry schedule, in seconds
RetryWaits == << 30, 60, 120 >>
\* the call that ends a refresh which retries transient errors: the first
\* one that is not answered by a transient error, or the last one allowed
LastAttempt ==
    IF \E i \in 1..Len(RetryWaits) : refresh.script[i] # "transient"
    THEN CHOOSE i \in 1..Len(RetryWaits) :
             /\ refresh.script[i] # "transient"
             /\ \A j \in 1..(i - 1) : refresh.script[j] = "transient"
    ELSE Len(RetryWaits) + 1

\* C37: a refresh calls the provider again after a transient error, up to
\* 4 calls in all with waits of 30, 60 and 120 seconds between them; it
\* succeeds as soon as a call succeeds and fails only when all 4 failed; an
\* authentication error ends it at once
C37_RefreshRetriesTransientErrors ==
    refresh.status \in {"success", "failed"} =>
        /\ refresh.calls = LastAttempt
        /\ refresh.sleeps = SubSeq(RetryWaits, 1, LastAttempt - 1)
        /\ refresh.status = "success" <=> refresh.script[LastAttempt] = "ok"

\* the part of it about authentication errors: one call, no wait, failed
AuthErrorNotRetried ==
    (refresh.status \in {"success", "failed"} /\ refresh.script[1] = "auth") =>
        /\ refresh.calls = 1
        /\ refresh.sleeps = << >>
        /\ refresh.status = "failed"

\* the eligible slots of a device: the slots of the pool that start strictly
\* before its deadline; none once the deadline has passed (C19)
EligibleStarts(d) ==
    IF d.deadline <= now THEN {}
    ELSE {st \in DOMAIN SwitchPool : SwitchPool[st].start_time < d.deadline}

\* C38: after the runtime-quota scheduler, the assigned slots of every
\* switch device with remaining runtime hold no slot twice, are all
\* eligible slots of the device, are in chronological order, and are
\* min(slots needed, number of eligible slots) many
C38_AssignedSlotsWellFormed ==
    SwitchDone =>
        \A i \in NeedsRuntime :
            LET d == devices[i]
                slots == results[d.subentry_id].scheduled_slots
            IN /\ \A a, b \in 1..Len(slots) : a # b => slots[a] # slots[b]
               /\ Range(slots) \subseteq EligibleStarts(d)
               /\ \A a, b \in 1..Len(slots) : a < b => slots[a] <= slots[b]
               /\ Len(slots) = Min(RemainingSlotsNeeded(d),
                                   Cardinality(EligibleStarts(d)))

\* a device that needs two slots and has one eligible slot got that one,
\* and the other device, which needs one slot and has more, got one
C38_Witness ==
    /\ SwitchDone
    /\ \E i, j \in NeedsRuntime :
          /\ RemainingSlotsNeeded(devices[i]) = 2
          /\ Cardinality(EligibleStarts(devices[i])) = 1
          /\ Len(results[devices[i].subentry_id].scheduled_slots) = 1
          /\ RemainingSlotsNeeded(devices[j]) = 1
          /\ Cardinality(EligibleStarts(devices[j])) > 1
          /\ Len(results[devices[j].subentry_id].scheduled_slots) = 1

RECURSIVE TotalNeeded(_, _)
\* the slots the devices ids still need according to the scheduling states sts
TotalNeeded(sts, ids) ==
    IF ids = {} THEN 0
    ELSE LET id == CHOOSE x \in ids : TRUE
         IN sts[id].remaining_needed + TotalNeeded(sts, ids \ {id})
\* the assignments phase 1 and phase 2 have made so far
CommitsOf(phase) == {n \in 1..Len(assign_log) : assign_log[n].phase = phase}
\* the slots the active devices needed when phase 2 began: what they needed
\* at first less what phase 1 gave them
RECURSIVE NeededAtFirst(_)
NeededAtFirst(active) ==
    IF active = << >> THEN 0
    ELSE RemainingSlotsNeeded(Head(active)) + NeededAtFirst(Tail(active))
NeededAtPhase2Start == NeededAtFirst(active_devices) - Cardinality(CommitsOf(1))

\* C39: phase 2 terminates: every iteration either commits one pair, which
\* takes one off the total of slots still needed, or finds no pair and ends
\* the loop; the commits never outnumber the slots needed when phase 2
\* began; and a loop that has begun ends
C39_Phase2Terminates ==
    /\ [][pc = "phase2" =>
             \/ /\ Phase2Commit
                /\ pc' = "phase2"
                /\ TotalNeeded(states', DOMAIN states)
                       = TotalNeeded(states, DOMAIN states) - 1
             \/ /\ pc' # "phase2"
                /\ assign_log' = assign_log
                /\ states' = states]_vars
    /\ [](pc \in {"phase2", "thermostats"} =>
             Cardinality(CommitsOf(2)) <= NeededAtPhase2Start)
    /\ (pc = "phase2") ~> (pc # "phase2")

\* phase 2 has ended after one commit although two slots were needed when
\* it began: a device was left without an eligible slot
C39_Witness ==
    /\ pc = "thermostats"
    /\ Len(active_devices) = 2
    /\ Cardinality(CommitsOf(2)) = 1
    /\ NeededAtPhase2Start = 2
    /\ TotalNeeded(states, DOMAIN states) = 1

\* C40: whatever the sequence of heater on/off events and of the
\* temperature sensor coming and going, a sample the tracker takes in comes
\* from one uninterrupted heating interval: the session it closes was
\* opened when the heater last went from off to on
C40_SampleFromOneHeatingInterval ==
    heater.folded # << >> =>
        heater.folded[1].opened_at = heater.folded[1].turned_on_at

====
